---- MODULE Spec2Model ----
(***************************************************************************)
(* Tick-to-candle aggregation, SMA-crossover detection and the order       *)
(* lifecycle guard of src/main.py.                                         *)
(*                                                                         *)
(* Two contexts share the module-level dictionaries of main.py: the feed   *)
(* callback on_message -> process_market_data, and the scheduler loop of   *)
(* main().  Time is counted in whole minutes (the candle interval); prices *)
(* are whole ticks.  Python dictionaries are functions whose DOMAIN is the *)
(* set of keys.  Candle dictionaries are objects on a heap, so that        *)
(* live_candles[symbol] and the entries of completed_candle_history are    *)
(* references and candle.copy() allocates a new object.                    *)
(***************************************************************************)
EXTENDS Integers, Sequences, FiniteSets, TLC

\* ---------------------------------------------------------------- bounds
\* Wall-clock minutes of the modelled session: 0 .. MaxMinute.
MaxMinute == 5
\* Feed items delivered during the session.
MaxTicks == 3
\* Last traded prices are 1 .. MaxPrice.
MaxPrice == 2
\* A tick's event timestamp is at most MaxLag minutes behind the wall clock.
MaxLag == 1
\* SMA windows.  main.py:20-21 sets 5 and 20; the model keeps short < long
\* and scales both so that the histories stay enumerable.
SHORT_SMA_PERIOD == 1
LONG_SMA_PERIOD == 2
\* main.py:22 keeps max(short, long) + 5 candles; the margin is scaled too.
HistoryMargin == 1

\* ------------------------------------------------------- program constants
TRADE_QUANTITY == 1
SUCCESS_CODE == 200
\* Order offsets are counted in hundredths of a price unit and the two
\* percentages in hundredths of a percent: 0.5, 0.25 and 0.1 in main.py.
TARGET_PERCENTAGE == 50
STOP_LOSS_PERCENTAGE == 25
TRAILING_SL_POINTS == 10

Max(a, b) == IF a >= b THEN a ELSE b
Min(a, b) == IF a <= b THEN a ELSE b

CANDLE_HISTORY_LIMIT == Max(SHORT_SMA_PERIOD, LONG_SMA_PERIOD) + HistoryMargin

SYMBOLS_TO_SUBSCRIBE == {"SBIN", "RELIANCE"}
Symbols == SYMBOLS_TO_SUBSCRIBE
Prices == 1..MaxPrice
\* last_minute_checked = None
NoMinute == -1
\* The session opens at this minute of the modelled time line (config.py:64,
\* time(3, 45, 0)); main.py does not import it.
market_open_time_utc == 2
\* The scheduler leaves its loop at this minute (time(10, 0, 0) in main.py).
market_close_time_utc == MaxMinute

OrderIds == {"ord_a", "ord_b"}
\* What fyers_rest_client.place_order can do: answer with the success code
\* or another code (here 400) and an id, answer with nothing, or raise.
Responses ==
    {[kind |-> "response", code |-> SUCCESS_CODE, id |-> i] : i \in OrderIds}
    \cup {[kind |-> "response", code |-> 400, id |-> "ord_a"],
          [kind |-> "empty", code |-> 0, id |-> "none"],
          [kind |-> "raise", code |-> 0, id |-> "none"]}
NoResponse == [kind |-> "empty", code |-> 0, id |-> "none"]

VARIABLES
    now,                 \* wall-clock minute
    running,             \* the while-loop of main() has not reached break
    last_minute_checked, \* local of main()
    fyers_rest_client,   \* TRUE when the FyersModel instance was created
    heap,                \* candle dictionaries: object id -> fields
    live_candles,        \* symbol -> object id
    completed_candle_history, \* symbol -> sequence of object ids
    current_positions,   \* symbol -> position record
    ticks,               \* per symbol, the 'df' items received: <<minute, ltp>>
    appended,            \* per symbol, the timestamps appended to the history
    place_order_calls,   \* per symbol, the place_order calls and their answers
    last_eval,           \* per symbol, what the latest scheduler pass did
    notifications,       \* the messages telegram_sender was called with
    handler_calls,       \* the FyersTradeHandler.place_order calls made
    open_range_high,     \* ORBStrategy: symbol -> high of the opening range
    open_range_low,      \* ORBStrategy: symbol -> low of the opening range
    orb_initialized,     \* ORBStrategy: symbol -> TRUE
    symbol_vwap_data,    \* VWAPStrategy: symbol -> latest VWAP
    symbol_data,         \* GYStrategy: symbol -> fields of the latest candle
    trap_threshold,      \* GYStrategy: constructor argument
    current_strategy_mode, \* DASHBOARD_CONFIG['current_strategy_mode']
    strategy_call,       \* the latest call of a strategy method
    vwap_candles,        \* per symbol, the candles calculate_vwap was given
    scheduler_task,      \* where the coroutine main() stands in its pass
    data_item            \* the latest item process_market_data was given

vars == <<now, running, last_minute_checked, fyers_rest_client, heap,
          live_candles, completed_candle_history, current_positions,
          ticks, appended, place_order_calls, last_eval,
          notifications, handler_calls,
          open_range_high, open_range_low, orb_initialized,
          symbol_vwap_data, symbol_data, trap_threshold,
          current_strategy_mode, strategy_call, vwap_candles,
          scheduler_task, data_item>>

\* the frame of main() and the argument of process_market_data, for the
\* specifications that take the pass and the feed item by item
thread_vars == <<scheduler_task, data_item>>

\* the strategy objects, the dashboard's mode and what was asked of them
strategy_vars == <<open_range_high, open_range_low, orb_initialized,
                   symbol_vwap_data, symbol_data, trap_threshold,
                   current_strategy_mode, strategy_call, vwap_candles>>

\* ------------------------------------------------------------ the heap
\* Object ids are <<symbol, n>>; a new object takes the least unused n.
NewId(h, s) ==
    <<s, CHOOSE n \in 1..(Cardinality(DOMAIN h) + 1) :
            /\ <<s, n>> \notin DOMAIN h
            /\ \A k \in 1..(n - 1) : <<s, k>> \in DOMAIN h>>

Referenced(lc, hist) ==
    {lc[s] : s \in DOMAIN lc}
    \cup UNION {{hist[s][i] : i \in 1..Len(hist[s])} : s \in Symbols}

\* the dictionary the local variable candle of main() refers to
Held == {scheduler_task.candle} \ {<<>>}

\* Dictionaries no reference leads to are gone.
Collect(h, lc, hist) ==
    [id \in DOMAIN h \cap (Referenced(lc, hist) \cup Held) |-> h[id]]

\* d[k] = v on a dictionary
DictSet(d, k, v) == [x \in DOMAIN d \cup {k} |-> IF x = k THEN v ELSE d[x]]

\* the number of feed items delivered so far
TicksReceived ==
    Cardinality({<<s, i>> \in Symbols \X (1..MaxTicks) : i <= Len(ticks[s])})

\* -------------------------------------------------- process_market_data
\* main.py:151-159 (the "volume" and "cumulative_day_volume" fields take no
\* part in any decision and are left out)
new_candle(ltp, current_minute_start) ==
    [timestamp |-> current_minute_start,
     open |-> ltp, high |-> ltp, low |-> ltp, close |-> ltp]

\* A variant of updated_candle that forgets the close.
updated_candle_stale_close(current_candle, ltp) ==
    [current_candle EXCEPT !.high = Max(current_candle.high, ltp),
                           !.low = Min(current_candle.low, ltp)]

\* main.py:161-165
updated_candle(current_candle, ltp) ==
    [current_candle EXCEPT !.high = Max(current_candle.high, ltp),
                           !.low = Min(current_candle.low, ltp),
                           !.close = ltp]

\* main.py:146-147
starts_new_candle(symbol, current_minute_start) ==
    \/ symbol \notin DOMAIN live_candles
    \/ heap[live_candles[symbol]].timestamp # current_minute_start

\* main.py:108-165 for one 'df' item that has a symbol and an ltp
candle_update(symbol, ltp, current_minute_start) ==
    /\ ticks' = [ticks EXCEPT ![symbol] =
                    Append(@, <<current_minute_start, ltp>>)]
    /\ IF starts_new_candle(symbol, current_minute_start)
       THEN LET id == NewId(heap, symbol)
                lc == DictSet(live_candles, symbol, id)
                h == DictSet(heap, id, new_candle(ltp, current_minute_start))
            IN /\ live_candles' = lc
               /\ heap' = Collect(h, lc, completed_candle_history)
       ELSE /\ heap' = [heap EXCEPT ![live_candles[symbol]] =
                            updated_candle(@, ltp)]
            /\ UNCHANGED live_candles

process_market_data(symbol, ltp, current_minute_start) ==
    /\ candle_update(symbol, ltp, current_minute_start)
    /\ UNCHANGED <<now, running, last_minute_checked, fyers_rest_client,
                   completed_candle_history, current_positions, appended,
                   place_order_calls, last_eval, notifications,
                   handler_calls, strategy_vars, thread_vars>>

\* main.py:93-105.  The feed delivers one item; its event minute is at most
\* MaxLag behind the wall clock (a missing timestamp is the wall clock,
\* main.py:133, and the host's local time is taken to be UTC).
on_message ==
    \E symbol \in Symbols, ltp \in Prices, lag \in 0..MaxLag :
        /\ TicksReceived < MaxTicks
        /\ now - lag >= 0
        /\ process_market_data(symbol, ltp, now - lag)

\* ------------------------------------------------------------ strategy
\* main.py:211-215.  The quotient sum / period is kept as the pair
\* <<sum, period>>; None is <<>>.
RECURSIVE SumSeq(_)
SumSeq(s) == IF s = <<>> THEN 0 ELSE Head(s) + SumSeq(Tail(s))

LastN(s, n) == SubSeq(s, Len(s) - n + 1, Len(s))

\* A variant of calculate_sma that takes the first period points.
calculate_sma_head(data_points, period) ==
    IF Len(data_points) < period
    THEN <<>>
    ELSE <<SumSeq(SubSeq(data_points, 1, period)), period>>

calculate_sma(data_points, period) ==
    IF Len(data_points) < period
    THEN <<>>
    ELSE <<SumSeq(LastN(data_points, period)), period>>

\* A variant of Gt that also holds of equal quotients.
GtOrEqual(a, b) == a[1] * b[2] >= b[1] * a[2]

\* A variant of Le that holds of any two quotients.
LeAlways(a, b) == TRUE

\* a > b and a <= b on quotients with positive denominators
Gt(a, b) == a[1] * b[2] > b[1] * a[2]
Le(a, b) == a[1] * b[2] <= b[1] * a[2]

\* A variant of sma_crossover whose length tests use the short period and
\* whose means are taken over the points there are.
sma_crossover_short_guard(close_prices, short, long) ==
    LET sma(data_points, period) ==
            <<SumSeq(LastN(data_points, Min(period, Len(data_points)))),
              period>>
        short_sma == sma(close_prices, short)
        long_sma == sma(close_prices, long)
        prev_close_prices == SubSeq(close_prices, 1, Len(close_prices) - 1)
        prev_short_sma == sma(prev_close_prices, short)
        prev_long_sma == sma(prev_close_prices, long)
    IN  IF Len(close_prices) < short + 1 THEN "None"
        ELSE IF Gt(short_sma, long_sma) /\ Le(prev_short_sma, prev_long_sma)
             THEN "BUY"
        ELSE IF Gt(long_sma, short_sma) /\ Le(prev_long_sma, prev_short_sma)
             THEN "SELL"
        ELSE "None"

\* main.py:218-256 for periods short and long
sma_crossover(close_prices, short, long) ==
    LET short_sma == calculate_sma(close_prices, short)
        long_sma == calculate_sma(close_prices, long)
        prev_close_prices == SubSeq(close_prices, 1, Len(close_prices) - 1)
        prev_short_sma == calculate_sma(prev_close_prices, short)
        prev_long_sma == calculate_sma(prev_close_prices, long)
    IN  IF Len(close_prices) < long THEN "None"
        ELSE IF short_sma = <<>> \/ long_sma = <<>> THEN "None"
        ELSE IF Len(close_prices) < long + 1 THEN "None"
        ELSE IF prev_short_sma = <<>> \/ prev_long_sma = <<>> THEN "None"
        ELSE IF Gt(short_sma, long_sma) /\ Le(prev_short_sma, prev_long_sma)
             THEN "BUY"
        ELSE IF Gt(long_sma, short_sma) /\ Le(prev_long_sma, prev_short_sma)
             THEN "SELL"
        ELSE "None"

check_sma_crossover(close_prices) ==
    sma_crossover(close_prices, SHORT_SMA_PERIOD, LONG_SMA_PERIOD)

\* ------------------------------------------------------- execute_trade
\* How round() settles a value that is halfway between two hundredths: the
\* float product is a little above or below the decimal tie.
Leans == {"down", "up"}

\* A variant of round_points that cuts the digits off.
round_points_truncated(current_price, percentage, lean) ==
    (current_price * percentage) \div 100

\* main.py:314-315, round(current_price * (percentage / 100), 2), in
\* hundredths
round_points(current_price, percentage, lean) ==
    LET exact == current_price * percentage
        q == exact \div 100
        r == exact % 100
    IN  IF r < 50 THEN q
        ELSE IF r > 50 THEN q + 1
        ELSE IF lean = "up" THEN q + 1 ELSE q

\* A variant of order_succeeded that takes any answer for a success.
order_succeeded_any_code(order_response) ==
    order_response.kind = "response"

\* main.py:350
order_succeeded(order_response) ==
    /\ order_response.kind = "response"
    /\ order_response.code = SUCCESS_CODE

\* A variant of execute_trade without the re-entry guard of main.py:272.
execute_trade_reentry(symbol, signal_type, current_price, order_response, lean) ==
    IF ~fyers_rest_client
    THEN [outcome |-> "no_client", calls |-> <<>>,
          positions |-> current_positions]
    ELSE LET call == [signal_type |-> signal_type,
                      qty |-> IF signal_type = "BUY" THEN TRADE_QUANTITY
                              ELSE -TRADE_QUANTITY,
                      side |-> IF signal_type = "BUY" THEN 1 ELSE -1,
                      current_price |-> current_price,
                      stopLoss |-> round_points(current_price,
                                        STOP_LOSS_PERCENTAGE, lean),
                      takeProfit |-> round_points(current_price,
                                        TARGET_PERCENTAGE, lean),
                      trailingStopLoss |-> TRAILING_SL_POINTS,
                      response |-> order_response]
         IN  IF order_response.kind = "raise"
             THEN [outcome |-> "raised", calls |-> <<call>>,
                   positions |-> current_positions]
             ELSE IF order_succeeded(order_response)
             THEN [outcome |-> "placed", calls |-> <<call>>,
                   positions |-> DictSet(current_positions, symbol,
                       [side |-> signal_type,
                        quantity |-> TRADE_QUANTITY,
                        entry_price |-> current_price,
                        order_id |-> order_response.id])]
             ELSE [outcome |-> "failed", calls |-> <<call>>,
                   positions |-> current_positions]

\* A variant of execute_trade that submits a refused order a second time.
execute_trade_retry(symbol, signal_type, current_price, order_response, lean) ==
    IF ~fyers_rest_client
    THEN [outcome |-> "no_client", calls |-> <<>>,
          positions |-> current_positions]
    ELSE IF symbol \in DOMAIN current_positions
    THEN [outcome |-> "skipped", calls |-> <<>>,
          positions |-> current_positions]
    ELSE LET call == [signal_type |-> signal_type,
                      qty |-> IF signal_type = "BUY" THEN TRADE_QUANTITY
                              ELSE -TRADE_QUANTITY,
                      side |-> IF signal_type = "BUY" THEN 1 ELSE -1,
                      current_price |-> current_price,
                      stopLoss |-> round_points(current_price,
                                        STOP_LOSS_PERCENTAGE, lean),
                      takeProfit |-> round_points(current_price,
                                        TARGET_PERCENTAGE, lean),
                      trailingStopLoss |-> TRAILING_SL_POINTS,
                      response |-> order_response]
         IN  IF order_response.kind = "raise"
             THEN [outcome |-> "raised", calls |-> <<call, call>>,
                   positions |-> current_positions]
             ELSE IF order_succeeded(order_response)
             THEN [outcome |-> "placed", calls |-> <<call>>,
                   positions |-> DictSet(current_positions, symbol,
                       [side |-> signal_type,
                        quantity |-> TRADE_QUANTITY,
                        entry_price |-> current_price,
                        order_id |-> order_response.id])]
             ELSE [outcome |-> "failed", calls |-> <<call, call>>,
                   positions |-> current_positions]

\* main.py:260-369.  The result names the log line the call ends with, the
\* place_order call it made (if any: the fields of order_data that depend on
\* the signal or the price, and the answer) and the position dictionary
\* after it.
execute_trade(symbol, signal_type, current_price, order_response, lean) ==
    IF ~fyers_rest_client
    THEN [outcome |-> "no_client", calls |-> <<>>,
          positions |-> current_positions]
    ELSE IF symbol \in DOMAIN current_positions
    THEN [outcome |-> "skipped", calls |-> <<>>,
          positions |-> current_positions]
    ELSE LET call == [signal_type |-> signal_type,
                      qty |-> IF signal_type = "BUY" THEN TRADE_QUANTITY
                              ELSE -TRADE_QUANTITY,
                      side |-> IF signal_type = "BUY" THEN 1 ELSE -1,
                      current_price |-> current_price,
                      stopLoss |-> round_points(current_price,
                                        STOP_LOSS_PERCENTAGE, lean),
                      takeProfit |-> round_points(current_price,
                                        TARGET_PERCENTAGE, lean),
                      trailingStopLoss |-> TRAILING_SL_POINTS,
                      response |-> order_response]
         IN  IF order_response.kind = "raise"
             THEN [outcome |-> "raised", calls |-> <<call>>,
                   positions |-> current_positions]
             ELSE IF order_succeeded(order_response)
             THEN [outcome |-> "placed", calls |-> <<call>>,
                   positions |-> DictSet(current_positions, symbol,
                       [side |-> signal_type,
                        quantity |-> TRADE_QUANTITY,
                        entry_price |-> current_price,
                        order_id |-> order_response.id])]
             ELSE [outcome |-> "failed", calls |-> <<call>>,
                   positions |-> current_positions]

\* ------------------------------------------------------- scheduler loop
\* A variant of candle_copy that appends the live dictionary itself.
candle_copy_alias(h, symbol) == live_candles[symbol]

\* main.py:438, candle.copy(): a new dictionary
candle_copy(h, symbol) == NewId(h, symbol)

\* A variant of append_with_limit that pops the newest entry.
append_with_limit_pop_newest(hist, id) ==
    LET grown == Append(hist, id)
    IN  IF Len(grown) > CANDLE_HISTORY_LIMIT
        THEN SubSeq(grown, 1, Len(grown) - 1) ELSE grown

\* main.py:438-442
append_with_limit(hist, id) ==
    LET grown == Append(hist, id)
    IN  IF Len(grown) > CANDLE_HISTORY_LIMIT THEN Tail(grown) ELSE grown

\* main.py:430
candle_closed(symbol) ==
    /\ symbol \in DOMAIN live_candles
    /\ heap[live_candles[symbol]].timestamp < now

\* A variant of market_closed that never holds.
market_closed_never(current_time_utc) == FALSE

\* main.py:411
market_closed(current_time_utc) == current_time_utc >= market_close_time_utc

\* A variant of minute_is_new that holds at every poll.
minute_is_new_every_poll(current_minute_start) == TRUE

\* main.py:424
minute_is_new(current_minute_start) ==
    \/ last_minute_checked = NoMinute
    \/ current_minute_start > last_minute_checked

\* One iteration of the while-loop that finds a new minute (main.py:424-458).
\* Each symbol of live_candles is handled on its own dictionaries, so the
\* for-loop is taken symbol by symbol at once.
SchedulerPass ==
    /\ running
    /\ ~market_closed(now)
    /\ minute_is_new(now)
    /\ LET closing == {s \in Symbols : candle_closed(s)}
           copy == [s \in closing |-> candle_copy(heap, s)]
           heap1 == [id \in DOMAIN heap \cup {copy[s] : s \in closing} |->
                        IF id \in DOMAIN heap THEN heap[id]
                        ELSE heap[live_candles[id[1]]]]
           hist1 == [s \in Symbols |->
                        IF s \in closing
                        THEN append_with_limit(completed_candle_history[s],
                                               copy[s])
                        ELSE completed_candle_history[s]]
           closes(s) == [i \in 1..Len(hist1[s]) |-> heap1[hist1[s][i]].close]
           signal == [s \in closing |-> check_sma_crossover(closes(s))]
           trading == {s \in closing : signal[s] # "None"}
           price(s) == heap1[live_candles[s]].close
           \* the symbols whose execute_trade reaches place_order
           placing == {s \in trading :
                        execute_trade(s, signal[s], price(s),
                                      NoResponse, "down").calls # <<>>}
       IN  \E resp \in [placing -> Responses], lean \in [placing -> Leans] :
            LET trade == [s \in trading |->
                            execute_trade(s, signal[s], price(s),
                                IF s \in placing THEN resp[s]
                                ELSE NoResponse,
                                IF s \in placing THEN lean[s] ELSE "down")]
            IN
            /\ completed_candle_history' = hist1
            /\ heap' = Collect(heap1, live_candles, hist1)
            /\ appended' = [s \in Symbols |->
                    IF s \in closing
                    THEN Append(appended[s], heap[live_candles[s]].timestamp)
                    ELSE appended[s]]
            /\ current_positions' =
                    [s \in DOMAIN current_positions
                           \cup {t \in trading :
                                    t \in DOMAIN trade[t].positions} |->
                        IF s \in trading THEN trade[s].positions[s]
                        ELSE current_positions[s]]
            /\ place_order_calls' = [s \in Symbols |->
                    IF s \in trading
                    THEN place_order_calls[s] \o trade[s].calls
                    ELSE place_order_calls[s]]
            /\ last_eval' = [s \in Symbols |->
                    IF s \notin closing
                    THEN [signal |-> "NA", outcome |-> "NA"]
                    ELSE IF s \notin trading
                    THEN [signal |-> "None", outcome |-> "NA"]
                    ELSE [signal |-> signal[s],
                          outcome |-> trade[s].outcome]]
    /\ last_minute_checked' = now
    /\ UNCHANGED <<now, running, fyers_rest_client, live_candles, ticks,
                   notifications, handler_calls, strategy_vars, thread_vars>>

\* A variant of SchedulerExit that squares the open positions off.
SchedulerExit_squares_off ==
    /\ running
    /\ market_closed(now)
    /\ running' = FALSE
    /\ current_positions' = <<>>
    /\ UNCHANGED <<now, last_minute_checked, fyers_rest_client, heap,
                   live_candles, completed_candle_history,
                   ticks, appended, place_order_calls, last_eval,
                   notifications, handler_calls, strategy_vars, thread_vars>>

\* main.py:411-419
SchedulerExit ==
    /\ running
    /\ market_closed(now)
    /\ running' = FALSE
    /\ UNCHANGED <<now, last_minute_checked, fyers_rest_client, heap,
                   live_candles, completed_candle_history, current_positions,
                   ticks, appended, place_order_calls, last_eval,
                   notifications, handler_calls, strategy_vars, thread_vars>>

\* A minute of wall-clock time passes.  The loop polls every 0.5 s
\* (main.py:460), so while it runs it has seen the minute that ends.
ClockAdvance ==
    /\ now < MaxMinute
    /\ running => last_minute_checked = now
    /\ now' = now + 1
    /\ UNCHANGED <<running, last_minute_checked, fyers_rest_client, heap,
                   live_candles, completed_candle_history, current_positions,
                   ticks, appended, place_order_calls, last_eval,
                   notifications, handler_calls, strategy_vars, thread_vars>>

\* No strategy has been given data: the dictionaries of ORBStrategy
\* (orb.py:9-11), VWAPStrategy (vwap.py:9) and GYStrategy
\* (gy_strategy.py:14-16) are empty, and the mode is the configured one
\* (config.py:120).
NoCall ==
    [strategy |-> "none", op |-> "none", symbol |-> "none",
     candles_df |-> <<>>, current_ltp |-> 0, result |-> "None"]

StrategiesIdle ==
    /\ open_range_high = <<>>
    /\ open_range_low = <<>>
    /\ orb_initialized = <<>>
    /\ symbol_vwap_data = <<>>
    /\ symbol_data = <<>>
    /\ trap_threshold = 10
    /\ current_strategy_mode = "SMA Crossover"
    /\ strategy_call = NoCall
    /\ vwap_candles = [s \in Symbols |-> <<>>]

\* main() has not entered a pass and the feed has delivered nothing.
Sleeping ==
    [pc |-> "sleep", current_minute_start |-> 0, symbols |-> <<>>,
     candle |-> <<>>, order_data |-> <<>>]

NoItem == [type |-> "none"]

ThreadsIdle ==
    /\ scheduler_task = Sleeping
    /\ data_item = NoItem

\* main.py:30-40 and 384-404.  FyersModel(...) may raise, which leaves
\* fyers_rest_client None while the feed and the loop still start.
Init ==
    /\ now = 0
    /\ running = TRUE
    /\ last_minute_checked = NoMinute
    /\ fyers_rest_client \in BOOLEAN
    /\ heap = <<>>
    /\ live_candles = <<>>
    /\ completed_candle_history = [s \in Symbols |-> <<>>]
    /\ current_positions = <<>>
    /\ ticks = [s \in Symbols |-> <<>>]
    /\ appended = [s \in Symbols |-> <<>>]
    /\ place_order_calls = [s \in Symbols |-> <<>>]
    /\ last_eval = [s \in Symbols |-> [signal |-> "NA", outcome |-> "NA"]]
    /\ notifications = <<>>
    /\ handler_calls = <<>>
    /\ StrategiesIdle
    /\ ThreadsIdle

Next ==
    \/ on_message
    \/ SchedulerPass
    \/ SchedulerExit
    \/ ClockAdvance

Spec == Init /\ [][Next]_vars

\* ------------------------------------------------ the detector by itself
\* Close prices the detector is applied to: 1 .. MaxClose.
MaxClose == 4
CloseSeqs ==
    UNION {[1..n -> 1..MaxClose] : n \in 0..CANDLE_HISTORY_LIMIT}

\* The state one tick a minute leaves behind: minute i - 1 traded at
\* closes[i] only and was finalized by the pass of minute i.
InitSMA ==
    \E sym \in Symbols, closes \in CloseSeqs :
        LET n == Len(closes)
            at(i) == new_candle(closes[IF i > n THEN n ELSE i],
                                (IF i > n THEN n ELSE i) - 1)
            ids == IF n = 0 THEN {} ELSE {<<sym, i>> : i \in 1..(n + 1)}
        IN  /\ now = n
            /\ running = TRUE
            /\ last_minute_checked = n
            /\ fyers_rest_client \in BOOLEAN
            /\ heap = [id \in ids |-> at(id[2])]
            /\ live_candles = [s \in (IF n = 0 THEN {} ELSE {sym}) |->
                                    <<sym, n + 1>>]
            /\ completed_candle_history = [s \in Symbols |->
                    IF s = sym THEN [i \in 1..n |-> <<sym, i>>] ELSE <<>>]
            /\ current_positions = <<>>
            /\ ticks = [s \in Symbols |->
                    IF s = sym THEN [i \in 1..n |-> <<i - 1, closes[i]>>]
                    ELSE <<>>]
            /\ appended = [s \in Symbols |->
                    IF s = sym THEN [i \in 1..n |-> i - 1] ELSE <<>>]
            /\ place_order_calls = [s \in Symbols |-> <<>>]
            /\ last_eval = [s \in Symbols |->
                                [signal |-> "NA", outcome |-> "NA"]]
            /\ notifications = <<>>
            /\ handler_calls = <<>>
            /\ StrategiesIdle
            /\ ThreadsIdle

\* check_sma_crossover(symbol) on the history as it stands (main.py:223-256)
EvaluateSMA ==
    \E symbol \in Symbols :
        LET history == completed_candle_history[symbol]
            close_prices == [i \in 1..Len(history) |-> heap[history[i]].close]
        IN  /\ last_eval' = [last_eval EXCEPT ![symbol] =
                    [signal |-> check_sma_crossover(close_prices),
                     outcome |-> "NA"]]
            /\ UNCHANGED <<now, running, last_minute_checked,
                           fyers_rest_client, heap, live_candles,
                           completed_candle_history, current_positions,
                           ticks, appended, place_order_calls,
                           notifications, handler_calls, strategy_vars, thread_vars>>

SpecSMA == InitSMA /\ [][EvaluateSMA]_vars

\* ------------------------------------- the detector with periods 3 and 5
\* Ten closes that are flat and then rise by one a candle.
ScenarioCloses == <<10, 10, 10, 10, 10, 11, 12, 13, 14, 15>>
\* Histories of at most max(3, 5) + 5 candles (main.py:22) that start flat
\* at 10 and then close anywhere in 10 .. 15.
ScenarioSeqs ==
    {[i \in 1..n |-> 10] : n \in 0..5}
    \cup {[i \in 1..5 |-> 10] \o rise :
            rise \in UNION {[1..n -> 10..15] :
                                n \in 1..(Len(ScenarioCloses) - 5)}}

\* The state one tick a minute leaves behind, as in InitSMA.
InitScenario ==
    \E sym \in Symbols, closes \in ScenarioSeqs :
        LET n == Len(closes)
            at(i) == new_candle(closes[IF i > n THEN n ELSE i],
                                (IF i > n THEN n ELSE i) - 1)
            ids == IF n = 0 THEN {} ELSE {<<sym, i>> : i \in 1..(n + 1)}
        IN  /\ now = n
            /\ running = TRUE
            /\ last_minute_checked = n
            /\ fyers_rest_client \in BOOLEAN
            /\ heap = [id \in ids |-> at(id[2])]
            /\ live_candles = [s \in (IF n = 0 THEN {} ELSE {sym}) |->
                                    <<sym, n + 1>>]
            /\ completed_candle_history = [s \in Symbols |->
                    IF s = sym THEN [i \in 1..n |-> <<sym, i>>] ELSE <<>>]
            /\ current_positions = <<>>
            /\ ticks = [s \in Symbols |->
                    IF s = sym THEN [i \in 1..n |-> <<i - 1, closes[i]>>]
                    ELSE <<>>]
            /\ appended = [s \in Symbols |->
                    IF s = sym THEN [i \in 1..n |-> i - 1] ELSE <<>>]
            /\ place_order_calls = [s \in Symbols |-> <<>>]
            /\ last_eval = [s \in Symbols |->
                                [signal |-> "NA", outcome |-> "NA"]]
            /\ notifications = <<>>
            /\ handler_calls = <<>>
            /\ StrategiesIdle
            /\ ThreadsIdle

\* check_sma_crossover(symbol) with SHORT_SMA_PERIOD = 3, LONG_SMA_PERIOD = 5
EvaluateScenario ==
    \E symbol \in Symbols :
        LET history == completed_candle_history[symbol]
            close_prices == [i \in 1..Len(history) |-> heap[history[i]].close]
        IN  /\ last_eval' = [last_eval EXCEPT ![symbol] =
                    [signal |-> sma_crossover(close_prices, 3, 5),
                     outcome |-> "NA"]]
            /\ UNCHANGED <<now, running, last_minute_checked,
                           fyers_rest_client, heap, live_candles,
                           completed_candle_history, current_positions,
                           ticks, appended, place_order_calls,
                           notifications, handler_calls, strategy_vars, thread_vars>>

SpecScenario == InitScenario /\ [][EvaluateScenario]_vars

\* ------------------------------------------- one instrument, a steady feed
\* main.py:93-105.  The feed delivers an item of SBIN that carries the
\* current minute; its price is one of 1 .. MaxClose.
on_message_steady ==
    \E ltp \in 1..MaxClose :
        /\ TicksReceived < MaxTicks
        /\ process_market_data("SBIN", ltp, now)

NextSteady ==
    \/ on_message_steady
    \/ SchedulerPass
    \/ SchedulerExit
    \/ ClockAdvance

SpecSteady == Init /\ [][NextSteady]_vars

\* ------------------------------------------------ the order-update stream
\* Order messages delivered during the session.
MaxUpdates == 1
\* The orderStatus an order message can carry.
OrderStatuses == {"FILLED", "EXITED"}

\* A variant of FyersWebSocketManager_on_message that drops every Position.
FyersWebSocketManager_on_message_forgets ==
    \E order_id \in OrderIds, order_status \in OrderStatuses :
        /\ Len(notifications) < MaxUpdates
        /\ notifications' = Append(notifications,
                [text |-> "Order Update", about |-> order_id,
                 detail |-> order_status])
        /\ current_positions' = <<>>
        /\ UNCHANGED <<now, running, last_minute_checked, fyers_rest_client,
                       heap, live_candles, completed_candle_history,
                       ticks, appended, place_order_calls,
                       last_eval, handler_calls, strategy_vars, thread_vars>>

\* my_fyers_utils/websocket_manager.py:37-43, an 'om' message: the update
\* is logged and handed to telegram_sender, nothing else.
FyersWebSocketManager_on_message ==
    \E order_id \in OrderIds, order_status \in OrderStatuses :
        /\ Len(notifications) < MaxUpdates
        /\ notifications' = Append(notifications,
                [text |-> "Order Update", about |-> order_id,
                 detail |-> order_status])
        /\ UNCHANGED <<now, running, last_minute_checked, fyers_rest_client,
                       heap, live_candles, completed_candle_history,
                       current_positions, ticks, appended, place_order_calls,
                       last_eval, handler_calls, strategy_vars, thread_vars>>

NextUpdates ==
    \/ on_message_steady
    \/ SchedulerPass
    \/ SchedulerExit
    \/ ClockAdvance
    \/ FyersWebSocketManager_on_message

SpecUpdates == Init /\ [][NextUpdates]_vars

\* ------------------------------------------------ FyersTradeHandler
\* place_order calls made on the handler.
MaxHandlerCalls == 1
\* What self.bot.send_message of the Telegram library can do.
TelegramApi == {"sent", "TelegramError", "Exception"}

\* telegram_bot/bot.py:15-30: both kinds of exception are caught and
\* logged, so the coroutine returns whether the text was delivered or not.
send_message(api) == IF api = "sent" THEN "delivered" ELSE "swallowed"

\* What awaiting self.telegram_sender can do.  The handler is given the
\* sender by its caller (trade_handler.py:9-11): TelegramBot.send_message,
\* or a coroutine function that lets an exception out.
SenderOutcomes == {send_message(api) : api \in TelegramApi} \cup {"raises"}

OrderTypes == 1..4

\* fyers_api/trade_handler.py:13-83.  sends[1] and sends[2] are what the
\* first and the second await of telegram_sender do.  The result is the
\* value returned (None when the call raises), whether the call raises,
\* and the texts telegram_sender was called with.
FyersTradeHandler_place_order(fyers, order_type, price, response, sends) ==
    LET text(t, n) == [text |-> t, about |-> response.id, detail |-> sends[n]]
        one(t) == [returned |-> "None", raised |-> sends[1] = "raises",
                   messages |-> <<text(t, 1)>>]
        \* the await inside try raised: the handler of line 80 sends again
        again(t) == [returned |-> "None", raised |-> sends[2] = "raises",
                     messages |-> <<text(t, 1), text("Unexpected Error", 2)>>]
    IN  IF ~fyers THEN one("not initialized")
        ELSE IF order_type \in {2, 3, 4} /\ price = 0
        THEN one("requires a price")
        ELSE IF response.kind = "raise" THEN one("Fyers API Error")
        ELSE IF response.kind = "empty" THEN one("Unexpected Error")
        ELSE IF response.code = SUCCESS_CODE
        THEN IF sends[1] = "raises" THEN again("Order Placed")
             ELSE [returned |-> response.id, raised |-> FALSE,
                   messages |-> <<text("Order Placed", 1)>>]
        ELSE IF sends[1] = "raises" THEN again("Order Failed")
             ELSE one("Order Failed")

\* A caller awaits place_order on a handler.
PlaceOrderCall ==
    \E fyers \in BOOLEAN, order_type \in OrderTypes,
       price \in {0} \cup Prices, response \in Responses,
       sends \in SenderOutcomes \X SenderOutcomes :
        LET result == FyersTradeHandler_place_order(fyers, order_type, price,
                                                    response, sends)
        IN  /\ Len(handler_calls) < MaxHandlerCalls
            /\ handler_calls' = Append(handler_calls,
                    [fyers |-> fyers, order_type |-> order_type,
                     price |-> price, response |-> response,
                     sends |-> sends, result |-> result])
            /\ notifications' = notifications \o result.messages
            /\ UNCHANGED <<now, running, last_minute_checked,
                           fyers_rest_client, heap, live_candles,
                           completed_candle_history, current_positions,
                           ticks, appended, place_order_calls, last_eval,
                           strategy_vars, thread_vars>>

SpecHandler == Init /\ [][PlaceOrderCall]_vars

\* ============================================================ properties
Last(s) == s[Len(s)]
History(symbol) == completed_candle_history[symbol]
\* the candle a history entry refers to
Entry(symbol, i) == heap[History(symbol)[i]]
IsSignal(x) == x \in {"BUY", "SELL"}
Confirmed(call) ==
    call.response.kind = "response" /\ call.response.code = 200
ConfirmedCalls(symbol) ==
    {i \in 1..Len(place_order_calls[symbol]) :
        Confirmed(place_order_calls[symbol][i])}
\* this step is a scheduler pass that ran execute_trade for the symbol
TradeStep(symbol) ==
    /\ last_minute_checked' # last_minute_checked
    /\ IsSignal(last_eval'[symbol].signal)

\* C1: per instrument at most one order is ever confirmed, so at most one
\* Position exists; and an execute_trade call for an instrument that has a
\* Position makes no place_order call and leaves its Position as it was.
C1_SinglePositionPerInstrument ==
    /\ [](\A s \in Symbols :
            /\ Cardinality(ConfirmedCalls(s)) <= 1
            /\ s \in DOMAIN current_positions
                    => Cardinality(ConfirmedCalls(s)) = 1)
    /\ [][\A s \in Symbols :
            (TradeStep(s) /\ s \in DOMAIN current_positions)
                => /\ place_order_calls'[s] = place_order_calls[s]
                   /\ s \in DOMAIN current_positions'
                   /\ current_positions'[s] = current_positions[s]]_vars

\* A signal came for an instrument with an open Position.
C1_Witness ==
    \E s \in Symbols :
        /\ s \in DOMAIN current_positions
        /\ IsSignal(last_eval[s].signal)
        /\ last_eval[s].signal # current_positions[s].side
        /\ Len(place_order_calls[s]) = 1

\* C2: a Position appears only with a place_order call answered with code
\* 200, and then carries the signal's side, the configured quantity, the
\* trigger price of the call and the returned id; a call answered otherwise,
\* or a missing client, leaves the positions as they were.
C2_PositionOnlyOnSuccess ==
    [][\A s \in Symbols :
        LET grew == Len(place_order_calls'[s]) = Len(place_order_calls[s]) + 1
            call == Last(place_order_calls'[s])
            had == s \in DOMAIN current_positions
            has == s \in DOMAIN current_positions'
        IN  /\ Len(place_order_calls'[s]) \in
                    {Len(place_order_calls[s]), Len(place_order_calls[s]) + 1}
            /\ had => (has /\ current_positions'[s] = current_positions[s])
            /\ (has /\ ~had) <=> (grew /\ Confirmed(call))
            /\ (has /\ ~had) =>
                    /\ TradeStep(s)
                    /\ current_positions'[s] =
                        [side |-> last_eval'[s].signal,
                         quantity |-> TRADE_QUANTITY,
                         entry_price |-> call.current_price,
                         order_id |-> call.response.id]
            /\ ~fyers_rest_client => (~grew /\ ~has)]_vars

\* After a refused order a later signal was confirmed.
C2_Witness ==
    \E s \in Symbols :
        /\ Len(place_order_calls[s]) = 2
        /\ ~Confirmed(place_order_calls[s][1])
        /\ s \in DOMAIN current_positions
        /\ current_positions[s].order_id = "ord_b"
        /\ current_positions[s].side = "SELL"

\* this step delivered a tick of the symbol
IngestStep(symbol) == ticks'[symbol] # ticks[symbol]
TickMinute(tick) == tick[1]
TickPrice(tick) == tick[2]
\* this step appended a candle to the symbol's history
FinalizeStep(symbol) == appended'[symbol] # appended[symbol]
Live(symbol) == heap[live_candles[symbol]]

\* C3: when a tick of a newer interval replaces the live candle, the
\* previous live candle is the newest entry of the instrument's history.
C3_PreviousCandleFinalized ==
    [][\A s \in DOMAIN live_candles :
        (IngestStep(s) /\ TickMinute(Last(ticks'[s])) > Live(s).timestamp)
            => /\ Len(completed_candle_history'[s]) > 0
               /\ heap'[Last(completed_candle_history'[s])] = Live(s)]_vars

RECURSIVE MaxOf(_)
MaxOf(s) == IF Len(s) = 1 THEN s[1] ELSE Max(s[1], MaxOf(Tail(s)))
RECURSIVE MinOf(_)
MinOf(s) == IF Len(s) = 1 THEN s[1] ELSE Min(s[1], MinOf(Tail(s)))
PricesOf(tks) == [i \in 1..Len(tks) |-> TickPrice(tks[i])]
OneInterval(tks) ==
    \A i \in 1..Len(tks) : TickMinute(tks[i]) = TickMinute(tks[1])

C5_OldTickDropped ==
    [][\A s \in DOMAIN live_candles :
        (IngestStep(s) /\ TickMinute(Last(ticks'[s])) < Live(s).timestamp)
            => /\ live_candles'[s] = live_candles[s]
               /\ heap'[live_candles'[s]] = Live(s)
               /\ completed_candle_history'[s] = completed_candle_history[s]
               /\ \A i \in 1..Len(History(s)) :
                    heap'[History(s)[i]] = Entry(s, i)]_vars

TimesAppended(symbol, minute) ==
    Cardinality({i \in 1..Len(appended[symbol]) :
                    appended[symbol][i] = minute})
InOrder(tks) ==
    \A i \in 1..Len(tks) : \A j \in i..Len(tks) :
        TickMinute(tks[i]) <= TickMinute(tks[j])

\* C6: with the ticks of an instrument arriving in interval order, the
\* candle of every tick's interval is appended to the history at most once,
\* and exactly once as soon as the live candle is of another interval.
C6_EveryTickInOneFinalizedCandle ==
    \A s \in Symbols :
        InOrder(ticks[s]) =>
            \A i \in 1..Len(ticks[s]) :
                LET m == TickMinute(ticks[s][i])
                IN  /\ TimesAppended(s, m) <= 1
                    /\ Live(s).timestamp # m => TimesAppended(s, m) = 1

\* C7: the interval starts of a history are strictly increasing.
C7_HistoryStrictlyIncreasing ==
    \A s \in Symbols :
        \A i \in 1..Len(History(s)) : \A j \in 1..Len(History(s)) :
            i < j => Entry(s, i).timestamp < Entry(s, j).timestamp

\* C8: a history never holds more than CANDLE_HISTORY_LIMIT candles, and a
\* finalization appends one entry, dropping the oldest entry and no other
\* when the limit would be exceeded; the entries kept are unchanged.
C8_HistoryBounded ==
    /\ [](\A s \in Symbols : Len(History(s)) <= CANDLE_HISTORY_LIMIT)
    /\ [][\A s \in Symbols :
            LET old == completed_candle_history[s]
                new == completed_candle_history'[s]
                kept == IF Len(old) + 1 > CANDLE_HISTORY_LIMIT
                        THEN Tail(old) ELSE old
            IN  IF FinalizeStep(s)
                THEN /\ Len(new) = Len(kept) + 1
                     /\ \A i \in 1..Len(kept) : heap'[new[i]] = heap[kept[i]]
                     /\ heap'[Last(new)] = Live(s)
                ELSE new = old]_vars

\* A full history lost its oldest entry to a newer one.
C8_Witness ==
    \E s \in Symbols :
        /\ Len(appended[s]) > CANDLE_HISTORY_LIMIT
        /\ Len(History(s)) = CANDLE_HISTORY_LIMIT
        /\ Entry(s, 1).close # Entry(s, CANDLE_HISTORY_LIMIT).close

\* C9: no tick changes an entry of a history; a tick of a newer interval
\* than the finalized live candle's makes a new live candle of that
\* interval, which is no entry of the history.
C9_HistoryEntriesImmutable ==
    [][\A s \in Symbols :
        IngestStep(s) =>
            /\ completed_candle_history'[s] = completed_candle_history[s]
            /\ \A i \in 1..Len(History(s)) :
                    heap'[History(s)[i]] = Entry(s, i)
            /\ (/\ s \in DOMAIN live_candles
                /\ TickMinute(Last(ticks'[s])) > Live(s).timestamp)
                => /\ heap'[live_candles'[s]] =
                        [timestamp |-> TickMinute(Last(ticks'[s])),
                         open |-> TickPrice(Last(ticks'[s])),
                         high |-> TickPrice(Last(ticks'[s])),
                         low |-> TickPrice(Last(ticks'[s])),
                         close |-> TickPrice(Last(ticks'[s]))]
                   /\ \A i \in 1..Len(History(s)) :
                        History(s)[i] # live_candles'[s]]_vars

\* After the prior minute's candle was finalized, a tick of the next minute
\* and then a second one with another price were applied to the live candle.
C9_Witness ==
    \E s \in Symbols :
        /\ Len(History(s)) = 1
        /\ Len(ticks[s]) = 3
        /\ TickMinute(ticks[s][2]) = TickMinute(ticks[s][1]) + 1
        /\ TickMinute(ticks[s][3]) = TickMinute(ticks[s][2])
        /\ TickPrice(ticks[s][3]) # TickPrice(ticks[s][1])
        /\ Entry(s, 1).timestamp = TickMinute(ticks[s][1])
        /\ Live(s).timestamp = TickMinute(ticks[s][2])
        /\ Live(s).close = TickPrice(ticks[s][3])

Closes(symbol) == [i \in 1..Len(History(symbol)) |-> Entry(symbol, i).close]
\* c[last - n + 1] + ... + c[last]
RECURSIVE WindowSum(_, _, _)
WindowSum(c, last, n) ==
    IF n = 0 THEN 0 ELSE c[last] + WindowSum(c, last - 1, n - 1)
\* the means of the short and the long window ending at candle k, compared
ShortAbove(c, k) ==
    WindowSum(c, k, SHORT_SMA_PERIOD) * LONG_SMA_PERIOD
        > WindowSum(c, k, LONG_SMA_PERIOD) * SHORT_SMA_PERIOD
ShortBelow(c, k) ==
    WindowSum(c, k, SHORT_SMA_PERIOD) * LONG_SMA_PERIOD
        < WindowSum(c, k, LONG_SMA_PERIOD) * SHORT_SMA_PERIOD

\* C10: on a history of at least long + 1 candles the detector answers BUY
\* exactly when the short mean is above the long mean at the last candle
\* and was not above it at the one before, SELL exactly when it is below
\* and was not below, and nothing otherwise.
C10_CrossoverSignal ==
    \A s \in Symbols :
        LET c == Closes(s)
            n == Len(c)
        IN  (last_eval[s].signal # "NA" /\ n >= LONG_SMA_PERIOD + 1) =>
                /\ last_eval[s].signal = "BUY"
                    <=> (ShortAbove(c, n) /\ ~ShortAbove(c, n - 1))
                /\ last_eval[s].signal = "SELL"
                    <=> (ShortBelow(c, n) /\ ~ShortBelow(c, n - 1))
                /\ last_eval[s].signal \in {"BUY", "SELL", "None"}

\* A BUY after the two means were equal at the candle before.
C10_Witness ==
    \E s \in Symbols :
        LET c == Closes(s)
            n == Len(c)
        IN  /\ n >= LONG_SMA_PERIOD + 1
            /\ last_eval[s].signal = "BUY"
            /\ ~ShortAbove(c, n - 1)
            /\ ~ShortBelow(c, n - 1)

\* C11: on the closes 10, 10, 10, 10, 10, 11, 12, 13, 14, 15 with periods 3
\* and 5 the detector answers nothing at the last candle, where the short
\* mean was above the long mean at the candle before already; it answers
\* BUY at the sixth candle, the first close of 11.
C11_ScenarioSignals ==
    \A s \in Symbols :
        last_eval[s].signal # "NA" =>
            /\ Closes(s) = ScenarioCloses => last_eval[s].signal = "None"
            /\ Closes(s) = SubSeq(ScenarioCloses, 1, 6)
                    => last_eval[s].signal = "BUY"

\* The detector was applied to the ten closes.
C11_Witness ==
    \E s \in Symbols :
        /\ Closes(s) = ScenarioCloses
        /\ last_eval[s].signal = "None"

\* C11 as stated: the detector answers BUY at the last of the ten closes.
C11_BuyOnLastCandle ==
    \A s \in Symbols :
        (last_eval[s].signal # "NA" /\ Closes(s) = ScenarioCloses)
            => last_eval[s].signal = "BUY"

\* C12: the detector only reads the history: a closure that yields no
\* signal leaves the positions and the place_order calls as they were.  A
\* BUY (SELL) is answered only when the short mean was not above (below)
\* the long mean at the closure before, so the signal of one closure is not
\* the signal of the next.
C12_NoRefire ==
    [][\A s \in Symbols :
        FinalizeStep(s) =>
            LET c == Closes(s)
                n == Len(c)
                sig == last_eval'[s].signal
            IN  /\ sig = "None" =>
                    /\ place_order_calls'[s] = place_order_calls[s]
                    /\ (s \in DOMAIN current_positions')
                            = (s \in DOMAIN current_positions)
                /\ IsSignal(sig) => n >= LONG_SMA_PERIOD
                /\ sig = "BUY" => ~ShortAbove(c, n)
                /\ sig = "SELL" => ~ShortBelow(c, n)
                /\ IsSignal(last_eval[s].signal)
                        => sig # last_eval[s].signal]_vars

\* A BUY was submitted and at a later closure the short mean is above
\* the long mean still: no signal.
C12_Witness ==
    \E s \in Symbols :
        /\ Len(place_order_calls[s]) = 1
        /\ place_order_calls[s][1].signal_type = "BUY"
        /\ last_eval[s].signal = "None"
        /\ Len(History(s)) >= LONG_SMA_PERIOD + 1
        /\ ShortAbove(Closes(s), Len(History(s)))
        /\ ShortAbove(Closes(s), Len(History(s)) - 1)

\* C13: a closure that leaves the history with fewer than long + 1 candles
\* yields no signal and the pass goes on: no place_order call is made and
\* the positions stay as they were.
C13_ShortHistoryNoSignal ==
    [][\A s \in Symbols :
        (FinalizeStep(s)
            /\ Len(completed_candle_history'[s]) < LONG_SMA_PERIOD + 1)
            => /\ last_eval'[s] = [signal |-> "None", outcome |-> "NA"]
               /\ place_order_calls'[s] = place_order_calls[s]
               /\ (s \in DOMAIN current_positions')
                        = (s \in DOMAIN current_positions)
               /\ running'
               /\ last_minute_checked' = now]_vars

\* A history of long candles whose short mean is below the long mean was
\* evaluated.
C13_Witness ==
    \E s \in Symbols :
        /\ Len(History(s)) = LONG_SMA_PERIOD
        /\ ShortBelow(Closes(s), LONG_SMA_PERIOD)
        /\ last_eval[s].signal = "None"
        /\ place_order_calls[s] = <<>>

Calls(symbol) ==
    {place_order_calls[symbol][i] : i \in 1..Len(place_order_calls[symbol])}

\* C14: every order carries as stop-loss the hundredth nearest to 0.0025
\* times the trigger price and as target the hundredth nearest to 0.005
\* times the trigger price.
C14_OffsetsFromTriggerPrice ==
    \A s \in Symbols : \A call \in Calls(s) :
        /\ 4 * call.stopLoss - call.current_price \in -2..2
        /\ 2 * call.takeProfit - call.current_price \in -1..1

\* An order at price 3: 0.0075 is rounded up to one hundredth, and the
\* target is 0.01 or 0.02.
C14_Witness ==
    \E s \in Symbols : \E call \in Calls(s) :
        /\ call.current_price = 3
        /\ call.stopLoss = 1
        /\ call.takeProfit = 2

\* C15: every order, BUY or SELL, has the configured trade size as its
\* quantity and the configured trailing-stop offset; only the side field
\* tells the direction.
C15_QuantityAndTrailingStop ==
    \A s \in Symbols : \A call \in Calls(s) :
        /\ call.qty = TRADE_QUANTITY
        /\ call.trailingStopLoss = TRAILING_SL_POINTS
        /\ call.side = (IF call.signal_type = "BUY" THEN 1 ELSE -1)

\* this step delivered an order message that reports the exit of the order
\* behind the symbol's Position
ExitStep(symbol) ==
    /\ symbol \in DOMAIN current_positions
    /\ notifications' # notifications
    /\ Last(notifications').text = "Order Update"
    /\ Last(notifications').about = current_positions[symbol].order_id
    /\ Last(notifications').detail = "EXITED"

\* C16: an order message that reports the exit of an instrument's order
\* destroys the instrument's Position.
C16_ExitDestroysPosition ==
    [][\A s \in Symbols :
        ExitStep(s) => s \notin DOMAIN current_positions']_vars

\* C17: a step adds at most one place_order call for an instrument, and
\* only at a candle closure that yields a signal; after a call that is not
\* answered with code 200 the instrument has no Position; and a signal for
\* an instrument without a Position does make a place_order call.
C17_NoAutomaticRetry ==
    [][\A s \in Symbols :
        LET old == place_order_calls[s]
            new == place_order_calls'[s]
        IN  /\ new # old =>
                /\ new = Append(old, Last(new))
                /\ FinalizeStep(s)
                /\ TradeStep(s)
                /\ Last(new).signal_type = last_eval'[s].signal
            /\ (new # old /\ ~Confirmed(Last(new)))
                    => s \notin DOMAIN current_positions'
            /\ (TradeStep(s) /\ fyers_rest_client
                    /\ s \notin DOMAIN current_positions)
                    => Len(new) = Len(old) + 1]_vars

\* Two signals of one instrument were both refused, each submitted once.
C17_Witness ==
    \E s \in Symbols :
        /\ Len(place_order_calls[s]) = 2
        /\ ~Confirmed(place_order_calls[s][1])
        /\ ~Confirmed(place_order_calls[s][2])
        /\ place_order_calls[s][1].signal_type
                # place_order_calls[s][2].signal_type
        /\ s \notin DOMAIN current_positions

FailureTexts ==
    {"Order Failed", "Fyers API Error", "Unexpected Error", "not initialized",
     "requires a price"}

\* C18: for every place_order call that was not answered with code 200, a
\* failure text has been handed to the notification channel.
C18_FailureNotified ==
    \A s \in Symbols : \A call \in Calls(s) :
        ~Confirmed(call) =>
            \E i \in 1..Len(notifications) :
                notifications[i].text \in FailureTexts

\* the call reached self.fyers.place_order
Submitted(c) ==
    c.fyers /\ ~(c.order_type \in {2, 3, 4} /\ c.price = 0)

\* C19: whatever the notification sender does, FyersTradeHandler.place_order
\* returns the order id when the broker answers with code 200 and None
\* when it does not, and does not raise.
C19_SenderFailureHarmless ==
    \A i \in 1..Len(handler_calls) :
        LET c == handler_calls[i]
        IN  Submitted(c) =>
                /\ ~c.result.raised
                /\ c.result.returned =
                        (IF c.response.kind = "response"
                                /\ c.response.code = 200
                         THEN c.response.id ELSE "None")

\* C20: once the wall clock is at or past the close, and for ever after the
\* loop has ended, no candle is appended, no detector is evaluated, no
\* order is submitted and no Position is made, whatever ticks arrive; a
\* loop that has ended stays ended.
C20_NothingAfterClose ==
    [][(~running \/ now >= market_close_time_utc) =>
        /\ completed_candle_history' = completed_candle_history
        /\ appended' = appended
        /\ last_eval' = last_eval
        /\ place_order_calls' = place_order_calls
        /\ current_positions' = current_positions
        /\ last_minute_checked' = last_minute_checked
        /\ ~running => ~running']_vars

\* The loop has ended; a tick of the closing minute made a live candle
\* that is in no history.
C20_Witness ==
    \E s \in DOMAIN live_candles :
        /\ ~running
        /\ Live(s).timestamp = market_close_time_utc
        /\ \A i \in 1..Len(appended[s]) :
                appended[s][i] # market_close_time_utc

\* C21: while the wall clock is before the session open, no step appends a
\* candle, evaluates the detector or makes a place_order call.
C21_NoWorkBeforeOpen ==
    [][now < market_open_time_utc =>
        /\ appended' = appended
        /\ completed_candle_history' = completed_candle_history
        /\ last_eval' = last_eval
        /\ place_order_calls' = place_order_calls]_vars

\* ------------------------------------ the session with a scheduled loop
\* main.py:93-105.  The feed delivers an item of SBIN whose event minute is
\* at most MaxLag behind the wall clock.
on_message_late ==
    \E ltp \in Prices, lag \in 0..MaxLag :
        /\ TicksReceived < MaxTicks
        /\ now - lag >= 0
        /\ process_market_data("SBIN", ltp, now - lag)

NextLive ==
    \/ on_message_late
    \/ SchedulerPass
    \/ SchedulerExit
    \/ ClockAdvance

\* main.py:421-424: the iteration finds a minute it has not handled yet
PassDue ==
    /\ running
    /\ ~market_closed(now)
    /\ last_minute_checked = NoMinute \/ now > last_minute_checked

\* main.py:458: the iteration that handled the minute records it
PassTaken == PassDue /\ last_minute_checked' = now

\* The loop of main() is never starved: asyncio.sleep(0.5) returns and the
\* next iteration runs (main.py:407-460), and wall-clock time passes.  The
\* last conjunct is weak fairness of SchedulerPass, whose steps are the
\* PassTaken steps and which is enabled exactly when PassDue holds.
SpecLive ==
    /\ Init
    /\ [][NextLive]_vars
    /\ WF_vars(SchedulerExit)
    /\ WF_vars(ClockAdvance)
    /\ ([]<>~PassDue \/ []<><<PassTaken>>_vars)

\* ------------------------------------- a feed with an unsubscribed symbol
\* An instrument the feed can name that is not in SYMBOLS_TO_SUBSCRIBE
\* (main.py:17) and so has no key in completed_candle_history (main.py:33).
Unsubscribed == {"TCS"}

\* main.py:93-105.  The feed delivers an item of an unsubscribed symbol;
\* process_market_data looks at no list of symbols (main.py:118-159).
on_message_unsubscribed ==
    \E symbol \in Unsubscribed, ltp \in Prices, lag \in 0..MaxLag :
        /\ now - lag >= 0
        /\ process_market_data(symbol, ltp, now - lag)

\* main.py:425-430: the for-loop meets a closed candle of a symbol that is
\* no key of completed_candle_history
foreign_candle_closed ==
    \E symbol \in DOMAIN live_candles \ Symbols :
        heap[live_candles[symbol]].timestamp < now

\* main.py:424-438 when no candle of a subscribed symbol is closed: the
\* for-loop appends nothing until it takes the unsubscribed key, where
\* completed_candle_history[symbol] raises KeyError; nothing in main()
\* catches it and the loop is over.  (With a subscribed candle closed as
\* well, what the pass appends first depends on the order of the keys;
\* those passes are left out.)
SchedulerKeyError ==
    /\ PassDue
    /\ \A s \in Symbols : ~candle_closed(s)
    /\ foreign_candle_closed
    /\ running' = FALSE
    /\ UNCHANGED <<now, last_minute_checked, fyers_rest_client, heap,
                   live_candles, completed_candle_history, current_positions,
                   ticks, appended, place_order_calls, last_eval,
                   notifications, handler_calls, strategy_vars, thread_vars>>

\* main.py:424-458 when the for-loop meets no such key
SchedulerPassKnownKeys == ~foreign_candle_closed /\ SchedulerPass

NextUnsubscribed ==
    \/ on_message_unsubscribed
    \/ SchedulerPassKnownKeys
    \/ SchedulerKeyError
    \/ SchedulerExit
    \/ ClockAdvance

SpecUnsubscribed == Init /\ [][NextUnsubscribed]_vars

\* C22: a live candle whose interval ended before the session close is
\* eventually appended to the instrument's history, unless a further tick
\* of the instrument arrives first.
C22_StaleCandleFinalized ==
    \A s \in Symbols : \A m \in 0..(market_close_time_utc - 2) :
        \A k \in 1..MaxTicks :
            (/\ s \in DOMAIN live_candles
             /\ Live(s).timestamp = m
             /\ Len(ticks[s]) = k)
            ~> (TimesAppended(s, m) > 0 \/ Len(ticks[s]) > k)

\* C23: the loop of main() stops at the session close only.
C23_LoopRunsUntilClose == ~running => market_closed(now)

\* ------------------------------------------------- the strategy classes
\* The frames (candles_df) a strategy method is given: at most MaxCandles
\* rows with open, high, low, close in Prices and volume in 0 .. MaxVolume.
MaxCandles == 2
MaxVolume == 1
StrategyCandles ==
    {c \in [open : Prices, high : Prices, low : Prices, close : Prices,
            volume : 0..MaxVolume] :
        /\ c.low <= c.open /\ c.open <= c.high
        /\ c.low <= c.close /\ c.close <= c.high}
CandleFrames == UNION {[1..n -> StrategyCandles] : n \in 0..MaxCandles}
\* the prices check_signal is asked about
Ltps == 0..(MaxPrice + 1)

\* the variables of main.py
core_vars == <<now, running, last_minute_checked, fyers_rest_client, heap,
               live_candles, completed_candle_history, current_positions,
               ticks, appended, place_order_calls, last_eval,
               notifications, handler_calls, thread_vars>>

\* DataFrame.head(n)
head(candles_df, n) == SubSeq(candles_df, 1, Min(n, Len(candles_df)))
Column(candles_df, name) == [i \in 1..Len(candles_df) |-> candles_df[i][name]]

\* ORBStrategy(open_range_minutes) (orb.py:7-8); the default is 15
open_range_minutes == 2

\* A variant of calculate_orb that captures the range on every call.
calculate_orb_recapture(symbol, candles_df) ==
    LET first_n_candles == head(candles_df, open_range_minutes)
    IN  IF first_n_candles # <<>>
        THEN [open_range_high |-> DictSet(open_range_high, symbol,
                                    MaxOf(Column(first_n_candles, "high"))),
              open_range_low |-> DictSet(open_range_low, symbol,
                                    MinOf(Column(first_n_candles, "low"))),
              orb_initialized |-> DictSet(orb_initialized, symbol, TRUE)]
        ELSE [open_range_high |-> open_range_high,
              open_range_low |-> open_range_low,
              orb_initialized |-> orb_initialized]

\* orb.py:13-33: the three dictionaries after the call
calculate_orb(symbol, candles_df) ==
    LET first_n_candles == head(candles_df, open_range_minutes)
    IN  IF symbol \notin DOMAIN orb_initialized /\ first_n_candles # <<>>
        THEN [open_range_high |-> DictSet(open_range_high, symbol,
                                    MaxOf(Column(first_n_candles, "high"))),
              open_range_low |-> DictSet(open_range_low, symbol,
                                    MinOf(Column(first_n_candles, "low"))),
              orb_initialized |-> DictSet(orb_initialized, symbol, TRUE)]
        ELSE [open_range_high |-> open_range_high,
              open_range_low |-> open_range_low,
              orb_initialized |-> orb_initialized]

\* A variant of ORBStrategy_check_signal that takes the bounds as breakouts.
ORBStrategy_check_signal_inclusive(symbol, current_ltp) ==
    IF symbol \in DOMAIN orb_initialized
    THEN IF current_ltp >= open_range_high[symbol] THEN "BUY"
         ELSE IF current_ltp <= open_range_low[symbol] THEN "SELL"
         ELSE "None"
    ELSE "None"

\* orb.py:35-52
ORBStrategy_check_signal(symbol, current_ltp) ==
    IF symbol \in DOMAIN orb_initialized
    THEN IF current_ltp > open_range_high[symbol] THEN "BUY"
         ELSE IF current_ltp < open_range_low[symbol] THEN "SELL"
         ELSE "None"
    ELSE "None"

\* A call of ORBStrategy.calculate_orb
CalculateOrb ==
    \E symbol \in Symbols, candles_df \in CandleFrames :
        LET after == calculate_orb(symbol, candles_df)
        IN  /\ open_range_high' = after.open_range_high
            /\ open_range_low' = after.open_range_low
            /\ orb_initialized' = after.orb_initialized
            /\ strategy_call' =
                    [strategy |-> "ORB", op |-> "calculate_orb",
                     symbol |-> symbol, candles_df |-> candles_df,
                     current_ltp |-> 0, result |-> "None"]
            /\ UNCHANGED <<core_vars, symbol_vwap_data, symbol_data,
                           trap_threshold, current_strategy_mode,
                           vwap_candles>>

\* A call of ORBStrategy.check_signal
OrbCheckSignal ==
    \E symbol \in Symbols, current_ltp \in Ltps :
        /\ strategy_call' =
                [strategy |-> "ORB", op |-> "check_signal",
                 symbol |-> symbol, candles_df |-> <<>>,
                 current_ltp |-> current_ltp,
                 result |-> ORBStrategy_check_signal(symbol, current_ltp)]
        /\ UNCHANGED <<core_vars, open_range_high, open_range_low,
                       orb_initialized, symbol_vwap_data, symbol_data,
                       trap_threshold, current_strategy_mode, vwap_candles>>

NextORB ==
    \/ CalculateOrb
    \/ OrbCheckSignal

SpecORB == Init /\ [][NextORB]_vars

\* C24: a calculate_orb call for an instrument whose range is captured
\* leaves the captured high and low as they were.
C24_RangeImmutable ==
    [][\A s \in DOMAIN orb_initialized :
        /\ s \in DOMAIN orb_initialized'
        /\ open_range_high'[s] = open_range_high[s]
        /\ open_range_low'[s] = open_range_low[s]]_vars

\* The range of an instrument is captured and calculate_orb was called
\* again with candles whose high is above the captured high.
C24_Witness ==
    /\ strategy_call.op = "calculate_orb"
    /\ strategy_call.symbol \in DOMAIN orb_initialized
    /\ strategy_call.candles_df # <<>>
    /\ MaxOf(Column(strategy_call.candles_df, "high"))
            > open_range_high[strategy_call.symbol]

\* C25: with the range captured, check_signal answers BUY exactly for a
\* price above the captured high, SELL exactly for a price below the
\* captured low, and None for a price from low to high.
C25_BreakoutSignal ==
    (/\ strategy_call.strategy = "ORB"
     /\ strategy_call.op = "check_signal"
     /\ strategy_call.symbol \in DOMAIN orb_initialized)
    => LET ltp == strategy_call.current_ltp
           high == open_range_high[strategy_call.symbol]
           low == open_range_low[strategy_call.symbol]
       IN  /\ strategy_call.result = "BUY" <=> ltp > high
           /\ strategy_call.result = "SELL" <=> ltp < low
           /\ strategy_call.result = "None" <=> (low <= ltp /\ ltp <= high)

\* check_signal was asked about the captured high itself.
C25_Witness ==
    /\ strategy_call.strategy = "ORB"
    /\ strategy_call.op = "check_signal"
    /\ strategy_call.symbol \in DOMAIN orb_initialized
    /\ strategy_call.current_ltp = open_range_high[strategy_call.symbol]
    /\ strategy_call.result = "None"

\* C26: the range of an instrument is captured from no fewer than
\* open_range_minutes candles.
C26_RangeFromFullWindow ==
    [][\A s \in Symbols :
        (s \notin DOMAIN orb_initialized /\ s \in DOMAIN orb_initialized')
            => Len(strategy_call'.candles_df) >= open_range_minutes]_vars

\* ------------------------------------------------------- VWAPStrategy
\* candles_df.ta.vwap(append=True) (vwap.py:24, gy_strategy.py:30), last
\* row: the volume-weighted mean of the typical price (high + low + close)
\* / 3 over the frame, kept as the pair <<numerator, denominator>>.  A frame
\* without volume gives 0 / 0, which compares False with everything, as
\* NaN does.
ta_vwap(candles_df) ==
    <<SumSeq([i \in 1..Len(candles_df) |->
                (candles_df[i].high + candles_df[i].low
                    + candles_df[i].close) * candles_df[i].volume]),
      3 * SumSeq(Column(candles_df, "volume"))>>

\* ltp > vwap and ltp < vwap for a VWAP kept as a pair
AboveVwap(ltp, vwap) == ltp * vwap[2] > vwap[1]
BelowVwap(ltp, vwap) == ltp * vwap[2] < vwap[1]

\* vwap.py:11-30.  The library decides whether the frame gets a column
\* named 'VWAP' (vwap_column); without it, and for an empty frame, nothing
\* is stored.
calculate_vwap(symbol, candles_df, vwap_column) ==
    IF vwap_column /\ candles_df # <<>>
    THEN DictSet(symbol_vwap_data, symbol, ta_vwap(candles_df))
    ELSE symbol_vwap_data

\* vwap.py:32-47
VWAPStrategy_check_signal(symbol, current_ltp) ==
    IF symbol \in DOMAIN symbol_vwap_data
    THEN IF AboveVwap(current_ltp, symbol_vwap_data[symbol]) THEN "BUY"
         ELSE IF BelowVwap(current_ltp, symbol_vwap_data[symbol]) THEN "SELL"
         ELSE "None"
    ELSE "None"

\* A call of VWAPStrategy.calculate_vwap for SBIN
CalculateVwap ==
    \E candles_df \in CandleFrames, vwap_column \in BOOLEAN :
        LET symbol == "SBIN"
            after == calculate_vwap(symbol, candles_df, vwap_column)
        IN  /\ symbol_vwap_data' = after
            /\ vwap_candles' =
                    IF vwap_column /\ candles_df # <<>>
                    THEN [vwap_candles EXCEPT ![symbol] = candles_df]
                    ELSE vwap_candles
            /\ strategy_call' =
                    [strategy |-> "VWAP", op |-> "calculate_vwap",
                     symbol |-> symbol, candles_df |-> candles_df,
                     current_ltp |-> 0, result |-> "None"]
            /\ UNCHANGED <<core_vars, open_range_high, open_range_low,
                           orb_initialized, symbol_data, trap_threshold,
                           current_strategy_mode>>

\* A call of VWAPStrategy.check_signal for SBIN
VwapCheckSignal ==
    \E current_ltp \in Ltps :
        /\ strategy_call' =
                [strategy |-> "VWAP", op |-> "check_signal",
                 symbol |-> "SBIN", candles_df |-> <<>>,
                 current_ltp |-> current_ltp,
                 result |-> VWAPStrategy_check_signal("SBIN", current_ltp)]
        /\ UNCHANGED <<core_vars, open_range_high, open_range_low,
                       orb_initialized, symbol_vwap_data, symbol_data,
                       trap_threshold, current_strategy_mode, vwap_candles>>

NextVWAP ==
    \/ CalculateVwap
    \/ VwapCheckSignal

SpecVWAP == Init /\ [][NextVWAP]_vars

\* GYStrategy(vwap_rejection_strength=0.0005) (gy_strategy.py:8), in
\* ten-thousandths
vwap_rejection_strength == 5
PerTenThousand == 10000

\* close < vwap * (1 - strength) and close > vwap * (1 + strength)
BelowLowerBand(close, vwap) ==
    close * vwap[2] * PerTenThousand
        < vwap[1] * (PerTenThousand - vwap_rejection_strength)
AboveUpperBand(close, vwap) ==
    close * vwap[2] * PerTenThousand
        > vwap[1] * (PerTenThousand + vwap_rejection_strength)

\* C27: the VWAP detector answers BUY only for a price above VWAP with the
\* previous close below the lower band, SELL only for a price below VWAP
\* with the previous close above the upper band, and None when it has
\* fewer than 2 candles.
C27_VwapDeviationSignal ==
    (strategy_call.strategy = "VWAP" /\ strategy_call.op = "check_signal")
    => LET s == strategy_call.symbol
           ltp == strategy_call.current_ltp
           candles == vwap_candles[s]
           previous_close == Last(candles).close
       IN  /\ Len(candles) < 2 => strategy_call.result = "None"
           /\ strategy_call.result = "BUY"
                => /\ AboveVwap(ltp, symbol_vwap_data[s])
                   /\ BelowLowerBand(previous_close, symbol_vwap_data[s])
           /\ strategy_call.result = "SELL"
                => /\ BelowVwap(ltp, symbol_vwap_data[s])
                   /\ AboveUpperBand(previous_close, symbol_vwap_data[s])

\* --------------------------------------------------------- GYStrategy
\* The frames GYStrategy.update_data is given: prices 1 .. MaxPrice + 1,
\* so that a price can lie strictly between a candle's open and high.
GyCandles ==
    {c \in [open : Ltps \ {0}, high : Ltps \ {0}, low : Ltps \ {0},
            close : Ltps \ {0}, volume : 0..MaxVolume] :
        /\ c.low <= c.open /\ c.open <= c.high
        /\ c.low <= c.close /\ c.close <= c.high}
GyFrames == UNION {[1..n -> GyCandles] : n \in 0..MaxCandles}
\* GYStrategy(trap_threshold) (gy_strategy.py:8), in ten-thousandths; the
\* default is 0.001
TrapThresholds == {0, 10, 5000}

\* gy_strategy.py:18-44.  The library decides whether the frame gets a
\* column named 'VWAP' (vwap_column).
update_data(symbol, candles_df, vwap_column) ==
    IF vwap_column /\ candles_df # <<>>
    THEN LET latest_candle == Last(candles_df)
         IN  DictSet(symbol_data, symbol,
                [vwap |-> ta_vwap(candles_df),
                 open |-> latest_candle.open,
                 high |-> latest_candle.high,
                 low |-> latest_candle.low,
                 close |-> latest_candle.close,
                 prev_close |-> IF Len(candles_df) > 1
                                THEN candles_df[Len(candles_df) - 1].close
                                ELSE latest_candle.close])
    ELSE symbol_data

\* gy_strategy.py:79-80: both tests of the trap block
trap(data, current_ltp, threshold) ==
    /\ current_ltp * PerTenThousand < data.high * (PerTenThousand - threshold)
    /\ current_ltp > data.open
    /\ data.high * PerTenThousand
            > data.prev_close * (PerTenThousand + threshold)

\* gy_strategy.py:89-102
vwap_rejection(data, current_ltp) ==
    IF AboveVwap(current_ltp, data.vwap)
            /\ BelowLowerBand(data.close, data.vwap)
    THEN "BUY"
    ELSE IF BelowVwap(current_ltp, data.vwap)
            /\ AboveUpperBand(data.close, data.vwap)
    THEN "SELL"
    ELSE "None"

\* A variant of GYStrategy_check_signal in which a trap withholds the signal.
GYStrategy_check_signal_trap_veto(data, current_ltp, threshold) ==
    IF trap(data, current_ltp, threshold) THEN "None"
    ELSE vwap_rejection(data, current_ltp)

\* gy_strategy.py:57-102 for the stored data of a symbol: the trap block
\* ends in pass (gy_strategy.py:82) and the flags of lines 74-75 are never
\* read.
GYStrategy_check_signal(data, current_ltp, threshold) ==
    IF trap(data, current_ltp, threshold)
    THEN vwap_rejection(data, current_ltp)
    ELSE vwap_rejection(data, current_ltp)

\* A call of GYStrategy.update_data for SBIN
UpdateData ==
    \E candles_df \in GyFrames, vwap_column \in BOOLEAN :
        /\ symbol_data' = update_data("SBIN", candles_df, vwap_column)
        /\ strategy_call' =
                [strategy |-> "GY", op |-> "update_data",
                 symbol |-> "SBIN", candles_df |-> <<>>,
                 current_ltp |-> 0, result |-> "None"]
        /\ UNCHANGED <<core_vars, open_range_high, open_range_low,
                       orb_initialized, symbol_vwap_data, trap_threshold,
                       current_strategy_mode, vwap_candles>>

\* A call of GYStrategy.check_signal for SBIN (gy_strategy.py:46-102)
GyCheckSignal ==
    \E current_ltp \in Ltps :
        /\ strategy_call' =
                [strategy |-> "GY", op |-> "check_signal",
                 symbol |-> "SBIN", candles_df |-> <<>>,
                 current_ltp |-> current_ltp,
                 result |-> IF "SBIN" \in DOMAIN symbol_data
                            THEN GYStrategy_check_signal(symbol_data["SBIN"],
                                    current_ltp, trap_threshold)
                            ELSE "None"]
        /\ UNCHANGED <<core_vars, open_range_high, open_range_low,
                       orb_initialized, symbol_vwap_data, symbol_data,
                       trap_threshold, current_strategy_mode, vwap_candles>>

\* GYStrategy(trap_threshold=...) with any of TrapThresholds
InitGY ==
    /\ now = 0
    /\ running = TRUE
    /\ last_minute_checked = NoMinute
    /\ fyers_rest_client = TRUE
    /\ heap = <<>>
    /\ live_candles = <<>>
    /\ completed_candle_history = [s \in Symbols |-> <<>>]
    /\ current_positions = <<>>
    /\ ticks = [s \in Symbols |-> <<>>]
    /\ appended = [s \in Symbols |-> <<>>]
    /\ place_order_calls = [s \in Symbols |-> <<>>]
    /\ last_eval = [s \in Symbols |-> [signal |-> "NA", outcome |-> "NA"]]
    /\ notifications = <<>>
    /\ handler_calls = <<>>
    /\ open_range_high = <<>>
    /\ open_range_low = <<>>
    /\ orb_initialized = <<>>
    /\ symbol_vwap_data = <<>>
    /\ symbol_data = <<>>
    /\ trap_threshold \in TrapThresholds
    /\ current_strategy_mode = "SMA Crossover"
    /\ strategy_call = NoCall
    /\ vwap_candles = [s \in Symbols |-> <<>>]
    /\ ThreadsIdle

NextGY ==
    \/ UpdateData
    \/ GyCheckSignal

SpecGY == InitGY /\ [][NextGY]_vars

\* C28: the answer of GYStrategy.check_signal depends on the stored VWAP and
\* latest close and on the price only: it is the answer for every other
\* open, high, low, previous close and trap threshold.
C28_TrapNeverVetoes ==
    (/\ strategy_call.strategy = "GY"
     /\ strategy_call.op = "check_signal"
     /\ "SBIN" \in DOMAIN symbol_data)
    => \A open \in Ltps, high \in Ltps, low \in Ltps, prev_close \in Ltps,
          threshold \in TrapThresholds :
            strategy_call.result =
                GYStrategy_check_signal(
                    [symbol_data["SBIN"] EXCEPT !.open = open,
                        !.high = high, !.low = low,
                        !.prev_close = prev_close],
                    strategy_call.current_ltp, threshold)

\* check_signal answered BUY although both tests of the trap block held.
C28_Witness ==
    /\ strategy_call.strategy = "GY"
    /\ strategy_call.op = "check_signal"
    /\ strategy_call.result = "BUY"
    /\ "SBIN" \in DOMAIN symbol_data
    /\ trap(symbol_data["SBIN"], strategy_call.current_ltp, trap_threshold)

\* ------------------------------------- the session under a composite mode
\* config.py:105-109: the mode that combines two detectors
CompositeModes == {"VWAP_ORB"}

\* main.py:30-40 with DASHBOARD_CONFIG['current_strategy_mode'] set to a
\* composite mode (config.py:119-120); main.py creates no strategy object.
InitComposite ==
    /\ now = 0
    /\ running = TRUE
    /\ last_minute_checked = NoMinute
    /\ fyers_rest_client \in BOOLEAN
    /\ heap = <<>>
    /\ live_candles = <<>>
    /\ completed_candle_history = [s \in Symbols |-> <<>>]
    /\ current_positions = <<>>
    /\ ticks = [s \in Symbols |-> <<>>]
    /\ appended = [s \in Symbols |-> <<>>]
    /\ place_order_calls = [s \in Symbols |-> <<>>]
    /\ last_eval = [s \in Symbols |-> [signal |-> "NA", outcome |-> "NA"]]
    /\ notifications = <<>>
    /\ handler_calls = <<>>
    /\ open_range_high = <<>>
    /\ open_range_low = <<>>
    /\ orb_initialized = <<>>
    /\ symbol_vwap_data = <<>>
    /\ symbol_data = <<>>
    /\ trap_threshold = 10
    /\ current_strategy_mode \in CompositeModes
    /\ strategy_call = NoCall
    /\ vwap_candles = [s \in Symbols |-> <<>>]
    /\ ThreadsIdle

SpecComposite == InitComposite /\ [][NextSteady]_vars

\* the detectors of the mode agree on the signal this step made for s
DetectorsAgree(s) ==
    LET price == heap'[Last(completed_candle_history'[s])].close
        signal == last_eval'[s].signal
    IN  /\ ORBStrategy_check_signal(s, price) = signal
        /\ VWAPStrategy_check_signal(s, price) = signal

\* C29: under a composite mode, a step that emits BUY or SELL for an
\* instrument, or calls place_order for it, does so with the signal that
\* both the ORB and the VWAP detector give for the trigger price.
C29_CompositeAgreement ==
    [][(current_strategy_mode \in CompositeModes) =>
        \A s \in Symbols :
            (\/ FinalizeStep(s) /\ IsSignal(last_eval'[s].signal)
             \/ place_order_calls'[s] # place_order_calls[s])
            => DetectorsAgree(s)]_vars

\* ------------------------------------------ one instrument among others
\* main.py:93-105.  The feed delivers an item of SBIN that carries the
\* current minute, at a moment when the loop has no pass to make.
on_message_between_passes ==
    \E ltp \in Prices :
        /\ TicksReceived < MaxTicks
        /\ ~PassDue
        /\ process_market_data("SBIN", ltp, now)

\* main.py:93-105.  The feed delivers an item of another symbol, subscribed
\* or not, that carries the current minute and the price 1.
on_message_other ==
    \E symbol \in (Symbols \ {"SBIN"}) \cup Unsubscribed :
        /\ TicksReceived < MaxTicks
        /\ process_market_data(symbol, 1, now)

NextOthers ==
    \/ on_message_between_passes
    \/ on_message_other
    \/ SchedulerPassKnownKeys
    \/ SchedulerKeyError
    \/ SchedulerExit
    \/ ClockAdvance

SpecOthers == Init /\ [][NextOthers]_vars

\* C30: whatever the other instruments do, what is finalized for SBIN
\* follows from SBIN's own ticks: the candle of every interval SBIN ticked
\* in is appended to SBIN's history by the pass of the next minute.
C30_OtherInstrumentsHarmless ==
    \A i \in 1..Len(ticks["SBIN"]) :
        LET m == TickMinute(ticks["SBIN"][i])
        IN  (m + 1 < market_close_time_utc /\ m + 1 < now)
                => TimesAppended("SBIN", m) > 0

\* ------------------------------------------- order updates delivered twice
\* The order stream may deliver its latest message once more.
MaxRedeliveries == 1

\* my_fyers_utils/websocket_manager.py:37-43 for a message that equals the
\* previous one: it is handled as any other.
OrderUpdateRedelivered ==
    /\ notifications # <<>>
    /\ Len(notifications) < MaxUpdates + MaxRedeliveries
    /\ Last(notifications).text = "Order Update"
    /\ notifications' = Append(notifications, Last(notifications))
    /\ UNCHANGED <<now, running, last_minute_checked, fyers_rest_client,
                   heap, live_candles, completed_candle_history,
                   current_positions, ticks, appended, place_order_calls,
                   last_eval, handler_calls, strategy_vars, thread_vars>>

NextRedelivery ==
    \/ on_message_between_passes
    \/ SchedulerPass
    \/ SchedulerExit
    \/ ClockAdvance
    \/ FyersWebSocketManager_on_message
    \/ OrderUpdateRedelivered

SpecRedelivery == Init /\ [][NextRedelivery]_vars

\* this step handled an order message
OrderUpdateStep ==
    /\ notifications' # notifications
    /\ Last(notifications').text = "Order Update"

\* C31: an order message, whatever order id it carries and however often
\* it is delivered, changes no Position, candle or history.
C31_UpdatesLeavePositions ==
    [][OrderUpdateStep =>
        /\ current_positions' = current_positions
        /\ live_candles' = live_candles
        /\ heap' = heap
        /\ completed_candle_history' = completed_candle_history
        /\ place_order_calls' = place_order_calls]_vars

\* SBIN has a Position and one update, about an order id that is not the
\* Position's, was delivered twice.
C31_Witness ==
    /\ "SBIN" \in DOMAIN current_positions
    /\ Len(notifications) = 2
    /\ notifications[1] = notifications[2]
    /\ notifications[1].about # current_positions["SBIN"].order_id

\* ------------------------------------------ the pass, statement by statement
\* main() runs in the asyncio loop of the main thread while on_message is
\* called from the thread FyersDataSocket.connect() starts
\* (main.py:184-205).  The pass of main.py:424-458 is taken here in the
\* steps between which the feed thread can run: after the append, and while
\* fyers_rest_client.place_order is waiting for its answer.

\* list(live_candles.keys()) for a feed whose first tick was SBIN's
live_candles_keys ==
    SelectSeq(<<"SBIN", "RELIANCE">>, LAMBDA s : s \in DOMAIN live_candles)

\* A variant of on_message whose thread waits for the asyncio loop.
on_message_threaded_waits ==
    \E symbol \in Symbols, ltp \in Prices, lag \in 0..MaxLag :
        /\ scheduler_task.pc # "place_order"
        /\ TicksReceived < MaxTicks
        /\ now - lag >= 0
        /\ symbol = "RELIANCE" => "SBIN" \in DOMAIN live_candles
        /\ process_market_data(symbol, ltp, now - lag)

\* main.py:93-105, called from the feed's thread whatever main() is doing
on_message_threaded ==
    \E symbol \in Symbols, ltp \in Prices, lag \in 0..MaxLag :
        /\ TicksReceived < MaxTicks
        /\ now - lag >= 0
        /\ symbol = "RELIANCE" => "SBIN" \in DOMAIN live_candles
        /\ process_market_data(symbol, ltp, now - lag)

\* main.py:406-425: the loop wakes, finds a new minute and lists the keys
LoopWake ==
    /\ scheduler_task.pc = "sleep"
    /\ running
    /\ ~market_closed(now)
    /\ last_minute_checked = NoMinute \/ now > last_minute_checked
    /\ scheduler_task' = [pc |-> "for", current_minute_start |-> now,
                          symbols |-> live_candles_keys,
                          candle |-> <<>>, order_data |-> <<>>]
    /\ UNCHANGED <<now, running, last_minute_checked, fyers_rest_client,
                   heap, live_candles, completed_candle_history,
                   current_positions, ticks, appended, place_order_calls,
                   last_eval, notifications, handler_calls, strategy_vars,
                   data_item>>

\* the frame once the body of the for-loop is done for the first symbol
next_symbol ==
    [scheduler_task EXCEPT !.pc = "for", !.symbols = Tail(@),
                           !.candle = <<>>, !.order_data = <<>>]

\* main.py:425-442 for the next key, and main.py:458 when there is none
ForSymbol ==
    /\ scheduler_task.pc = "for"
    /\ IF scheduler_task.symbols = <<>>
       THEN /\ last_minute_checked' = scheduler_task.current_minute_start
            /\ scheduler_task' = Sleeping
            /\ UNCHANGED <<heap, completed_candle_history, appended,
                           last_eval>>
       ELSE LET symbol == Head(scheduler_task.symbols)
                candle == live_candles[symbol]
                copy == candle_copy(heap, symbol)
            IN  /\ UNCHANGED last_minute_checked
                /\ IF heap[candle].timestamp <
                        scheduler_task.current_minute_start
                   THEN /\ heap' = DictSet(heap, copy, heap[candle])
                        /\ completed_candle_history' =
                            [completed_candle_history EXCEPT ![symbol] =
                                append_with_limit(@, copy)]
                        /\ appended' = [appended EXCEPT ![symbol] =
                                Append(@, heap[candle].timestamp)]
                        /\ scheduler_task' =
                            [scheduler_task EXCEPT !.pc = "appended",
                                                   !.candle = candle]
                        /\ UNCHANGED last_eval
                   ELSE /\ last_eval' = [last_eval EXCEPT ![symbol] =
                                [signal |-> "NA", outcome |-> "NA"]]
                        /\ scheduler_task' = next_symbol
                        /\ UNCHANGED <<heap, completed_candle_history,
                                       appended>>
    /\ UNCHANGED <<now, running, fyers_rest_client, live_candles,
                   current_positions, ticks, place_order_calls,
                   notifications, handler_calls, strategy_vars, data_item>>

\* the heap once main() lets go of its candle
Released ==
    [id \in DOMAIN heap \cap
            Referenced(live_candles, completed_candle_history) |-> heap[id]]

\* main.py:444-450 and execute_trade up to its call of place_order
\* (main.py:258-348): the detector runs on the history, the trigger price
\* is read from the dictionary candle refers to, and the guards of
\* execute_trade are passed or not.
CheckSignal ==
    /\ scheduler_task.pc = "appended"
    /\ LET symbol == Head(scheduler_task.symbols)
           hist == completed_candle_history[symbol]
           closes == [i \in 1..Len(hist) |-> heap[hist[i]].close]
           signal == check_sma_crossover(closes)
           current_price_for_trade == heap[scheduler_task.candle].close
           trade == execute_trade(symbol, signal, current_price_for_trade,
                                  NoResponse, "down")
       IN  IF signal = "None"
           THEN /\ last_eval' = [last_eval EXCEPT ![symbol] =
                        [signal |-> "None", outcome |-> "NA"]]
                /\ scheduler_task' = next_symbol
                /\ heap' = Released
           ELSE IF trade.calls = <<>>
           THEN /\ last_eval' = [last_eval EXCEPT ![symbol] =
                        [signal |-> signal, outcome |-> trade.outcome]]
                /\ scheduler_task' = next_symbol
                /\ heap' = Released
           ELSE \E lean \in Leans :
                /\ last_eval' = [last_eval EXCEPT ![symbol] =
                        [signal |-> signal, outcome |-> "place_order"]]
                /\ scheduler_task' =
                    [scheduler_task EXCEPT
                        !.pc = "place_order",
                        !.order_data =
                            [signal_type |-> signal,
                             current_price |-> current_price_for_trade,
                             lean |-> lean]]
                /\ UNCHANGED heap
    /\ UNCHANGED <<now, running, last_minute_checked, fyers_rest_client,
                   live_candles, completed_candle_history,
                   current_positions, ticks, appended, place_order_calls,
                   notifications, handler_calls, strategy_vars, data_item>>

\* main.py:348-372: place_order answers or raises, and execute_trade ends
PlaceOrderReturns ==
    /\ scheduler_task.pc = "place_order"
    /\ \E order_response \in Responses :
        LET symbol == Head(scheduler_task.symbols)
            order_data == scheduler_task.order_data
            trade == execute_trade(symbol, order_data.signal_type,
                                   order_data.current_price,
                                   order_response, order_data.lean)
        IN  /\ place_order_calls' = [place_order_calls EXCEPT ![symbol] =
                                        @ \o trade.calls]
            /\ current_positions' = trade.positions
            /\ last_eval' = [last_eval EXCEPT ![symbol] =
                    [signal |-> order_data.signal_type,
                     outcome |-> trade.outcome]]
    /\ scheduler_task' = next_symbol
    /\ heap' = Released
    /\ UNCHANGED <<now, running, last_minute_checked, fyers_rest_client,
                   live_candles, completed_candle_history, ticks, appended,
                   notifications, handler_calls, strategy_vars, data_item>>

\* main.py:411-419, reached only when the loop is at its head
SchedulerExitAtHead ==
    /\ scheduler_task.pc = "sleep"
    /\ SchedulerExit

\* A minute passes while the loop sleeps between two polls, or while it
\* waits inside place_order, which returns when the broker has answered.
ClockAdvanceThreaded ==
    \/ /\ scheduler_task.pc = "sleep"
       /\ ClockAdvance
    \/ /\ scheduler_task.pc = "place_order"
       /\ now < MaxMinute
       /\ now' = now + 1
       /\ UNCHANGED <<running, last_minute_checked, fyers_rest_client, heap,
                      live_candles, completed_candle_history,
                      current_positions, ticks, appended, place_order_calls,
                      last_eval, notifications, handler_calls,
                      strategy_vars, thread_vars>>

InitThreads ==
    /\ Init
    /\ fyers_rest_client

NextThreads ==
    \/ on_message_threaded
    \/ LoopWake
    \/ ForSymbol
    \/ CheckSignal
    \/ PlaceOrderReturns
    \/ SchedulerExitAtHead
    \/ ClockAdvanceThreaded

SpecThreads == InitThreads /\ [][NextThreads]_vars

\* this step of the feed put the price into the symbol's live candle
TickTaken(symbol, ltp) ==
    /\ on_message_threaded
    /\ IngestStep(symbol)
    /\ heap'[live_candles'[symbol]].close = ltp

\* C32: while a place_order call is waiting for the broker's answer, a tick
\* of every instrument and price can be taken into that instrument's live
\* candle; a tick taken then leaves the frame of main() as it was.
C32_IngestDuringOrder ==
    (scheduler_task.pc = "place_order" /\ TicksReceived < MaxTicks)
        => \A s \in Symbols, ltp \in Prices : ENABLED TickTaken(s, ltp)

\* An order is waiting and the close of the candle it was made from has
\* moved since the trigger price was read.
C32_Witness ==
    /\ scheduler_task.pc = "place_order"
    /\ scheduler_task.candle \in DOMAIN heap
    /\ heap[scheduler_task.candle].close #
            scheduler_task.order_data.current_price

\* a step of main() other than the return of the outstanding place_order
LoopStep == LoopWake \/ ForSymbol \/ CheckSignal \/ SchedulerExitAtHead

\* the loop has work that the clock has made due: the session is over, or
\* a minute began after the pass did and another instrument's live candle
\* is of an earlier minute
WorkDue ==
    \/ market_closed(now)
    \/ /\ now > scheduler_task.current_minute_start
       /\ \E s \in DOMAIN live_candles :
            /\ s # Head(scheduler_task.symbols)
            /\ heap[live_candles[s]].timestamp < now

\* C33: while an order submission is outstanding the scheduler loop is not
\* blocked: when the session has ended or another instrument's candle has
\* closed, the loop can take a step without the broker's answer.
C33_LoopNotBlockedByOrder ==
    (running /\ scheduler_task.pc = "place_order" /\ WorkDue)
        => ENABLED LoopStep

\* C39: with the feed running beside the pass, the trigger price handed to
\* execute_trade is the close of the history entry the pass appended for
\* the instrument.
C39_TriggerPriceIsAppendedClose ==
    scheduler_task.pc = "place_order" =>
        scheduler_task.order_data.current_price =
            Entry(Head(scheduler_task.symbols),
                  Len(History(Head(scheduler_task.symbols)))).close

\* C34: in a pass, for an instrument whose live candle is of an earlier
\* interval, the candle is appended first, the detector then runs on the
\* history that holds it, and only a BUY or SELL of that run leads to
\* execute_trade, with the close of the candle just appended as trigger
\* price; no order is submitted without such a signal of the same pass.
C34_AppendEvaluateThenTrade ==
    [][LET symbol == Head(scheduler_task.symbols)
           evaluated == scheduler_task.pc = "appended"
                            /\ scheduler_task'.pc # "appended"
           submitted == scheduler_task'.pc = "place_order"
                            /\ scheduler_task.pc # "place_order"
       IN  /\ scheduler_task'.pc = "appended" /\ scheduler_task.pc = "for"
                => /\ Len(appended'[symbol]) = Len(appended[symbol]) + 1
                   /\ heap'[Last(completed_candle_history'[symbol])] =
                        heap[live_candles[symbol]]
           /\ evaluated
                => last_eval'[symbol].signal =
                        check_sma_crossover(Closes(symbol))
           /\ submitted
                => /\ evaluated
                   /\ IsSignal(last_eval'[symbol].signal)
                   /\ scheduler_task'.order_data.signal_type =
                        last_eval'[symbol].signal
                   /\ scheduler_task'.order_data.current_price =
                        Entry(symbol, Len(History(symbol))).close
           /\ \A s \in Symbols :
                place_order_calls'[s] # place_order_calls[s]
                    => /\ scheduler_task.pc = "place_order"
                       /\ s = symbol
                       /\ Last(place_order_calls'[s]).signal_type =
                            last_eval[s].signal]_vars

\* C35: the candle that is the newest entry of an instrument's history is
\* never still that instrument's live candle, and no tick is accumulated
\* into a live candle of an interval that was finalized.
C35_FinalizedCandleNotLive ==
    /\ [](\A s \in DOMAIN live_candles :
            History(s) # <<>>
                => Live(s).timestamp # Entry(s, Len(History(s))).timestamp)
    /\ [][\A s \in DOMAIN live_candles :
            (IngestStep(s) /\ live_candles'[s] = live_candles[s])
                => \A i \in 1..Len(History(s)) :
                        Entry(s, i).timestamp # Live(s).timestamp]_vars

\* ------------------------------------------------- the feed, item by item
\* An item is a dictionary: a function on the keys it has.
Has(item, key) == key \in DOMAIN item

\* The items the feed hands to process_market_data: data ticks of SBIN
\* ('df') and messages of another type, each with or without its symbol,
\* its ltp and its timestamp.  The key timestamp stands for
\* data_item.get("timestamp") or data_item.get("last_traded_time") and is
\* a minute at most MaxLag behind the wall clock.
DataItems ==
    {[key \in keys \cup {"type"} |-> full[key]] :
        full \in [type : {"df", "sub"},
                  symbol : {"SBIN"},
                  ltp : Prices,
                  timestamp : {now - lag : lag \in 0..Min(MaxLag, now)}],
        keys \in SUBSET {"symbol", "ltp", "timestamp"}}

\* main.py:127-144: the minute of the item's timestamp, or of
\* datetime.now() when it has none
item_minute_start(item) ==
    IF Has(item, "timestamp") THEN item.timestamp ELSE now

\* A variant of process_data_item without the test of the item's type.
process_data_item_any_type(item) ==
    IF ~Has(item, "symbol") \/ ~Has(item, "ltp")
    THEN UNCHANGED <<ticks, heap, live_candles>>
    ELSE candle_update(item.symbol, item.ltp, item_minute_start(item))

\* main.py:108-165
process_data_item(item) ==
    IF item.type # "df"
    THEN UNCHANGED <<ticks, heap, live_candles>>
    ELSE IF ~Has(item, "symbol") \/ ~Has(item, "ltp")
    THEN UNCHANGED <<ticks, heap, live_candles>>
    ELSE candle_update(item.symbol, item.ltp, item_minute_start(item))

\* main.py:93-105 for a message that is one item, or for the next item of
\* a message that is a list
on_message_item ==
    \E item \in DataItems :
        /\ TicksReceived < MaxTicks
        /\ process_data_item(item)
        /\ data_item' = item
        /\ UNCHANGED <<now, running, last_minute_checked, fyers_rest_client,
                       completed_candle_history, current_positions,
                       appended, place_order_calls, last_eval,
                       notifications, handler_calls, strategy_vars,
                       scheduler_task>>

NextItems ==
    \/ on_message_item
    \/ SchedulerPass
    \/ SchedulerExit
    \/ ClockAdvance

SpecItems == Init /\ [][NextItems]_vars

\* what main.py:112 and main.py:122 let through
WellFormed(item) ==
    item.type = "df" /\ Has(item, "symbol") /\ Has(item, "ltp")

\* this step handed a new item to process_market_data
ItemStep == data_item' # data_item \/ ticks' # ticks

\* C36: an item that is no data tick, or has no symbol or no last traded
\* price, changes no live candle, history or Position; a well-formed tick,
\* whatever came before it, is taken into its instrument's live candle,
\* at the minute of its timestamp or, without one, at the wall clock's.
C36_MalformedItemsDropped ==
    [][ItemStep =>
        IF WellFormed(data_item')
        THEN /\ IngestStep(data_item'.symbol)
             /\ Last(ticks'[data_item'.symbol]) =
                    <<IF Has(data_item', "timestamp")
                      THEN data_item'.timestamp ELSE now,
                      data_item'.ltp>>
             /\ heap'[live_candles'[data_item'.symbol]].close =
                    data_item'.ltp
             /\ heap'[live_candles'[data_item'.symbol]].timestamp =
                    IF Has(data_item', "timestamp")
                    THEN data_item'.timestamp ELSE now
        ELSE /\ live_candles' = live_candles
             /\ heap' = heap
             /\ ticks' = ticks
             /\ completed_candle_history' = completed_candle_history
             /\ current_positions' = current_positions]_vars

\* After two ticks of price 1, in minute 1 an item of another type that
\* carries SBIN and the price 2 but no timestamp was dropped.
C36_Witness ==
    /\ now = 1
    /\ ticks["SBIN"] = <<<<0, 1>>, <<1, 1>>>>
    /\ data_item = [type |-> "sub", symbol |-> "SBIN", ltp |-> 2]
    /\ Live("SBIN").close = 1
    /\ Live("SBIN").timestamp = 1

\* ------------------------------------------------- the host's time zone
\* The host's local time is this many minutes ahead of UTC.
HostUtcOffset == 1

\* datetime.fromtimestamp(epoch) and datetime.now() (main.py:130-133):
\* the naive local time of a moment whose UTC minute is given
fromtimestamp(utc_minute) == utc_minute + HostUtcOffset

\* main.py:93-105 on a host that is not on UTC.  The feed delivers an item
\* of SBIN whose epoch timestamp is of the current minute.
on_message_host ==
    \E ltp \in Prices :
        /\ TicksReceived < MaxTicks
        /\ process_market_data("SBIN", ltp, fromtimestamp(now))

NextHost ==
    \/ on_message_host
    \/ SchedulerPass
    \/ SchedulerExit
    \/ ClockAdvance

SpecHost == Init /\ [][NextHost]_vars

\* C37: the start of a live candle's interval and the start of the
\* scheduler's current interval are in one time reference, so whatever the
\* host's offset from UTC, a pass treats a live candle as closed exactly
\* when the scheduler's clock is in a later minute than the one the
\* candle's ticks were traded in.
C37_ClosedWhenClockEnteredLaterInterval ==
    [][\A s \in DOMAIN live_candles :
        last_minute_checked' # last_minute_checked
            => (Len(appended'[s]) > Len(appended[s])
                    <=> Live(s).timestamp - HostUtcOffset < now)]_vars

\* C38: the set of positions only grows: a Position, once recorded, is
\* never removed or changed by any operation, no further order is
\* submitted for its instrument, and so at most one order per instrument
\* is recorded as placed in a session.
C38_PositionsOnlyGrow ==
    /\ [][\A s \in DOMAIN current_positions :
            /\ s \in DOMAIN current_positions'
            /\ current_positions'[s] = current_positions[s]
            /\ place_order_calls'[s] = place_order_calls[s]]_vars
    /\ [](\A s \in DOMAIN current_positions :
            /\ place_order_calls[s] # <<>>
            /\ Confirmed(Last(place_order_calls[s]))
            /\ current_positions[s].order_id =
                    Last(place_order_calls[s]).response.id)

\* The session is over: SBIN's BUY was recorded, the SELL that came later
\* was skipped, an order message was handled, and the Position is as it
\* was recorded.
C38_Witness ==
    /\ ~running
    /\ "SBIN" \in DOMAIN current_positions
    /\ current_positions["SBIN"].side = "BUY"
    /\ last_eval["SBIN"] = [signal |-> "SELL", outcome |-> "skipped"]
    /\ notifications # <<>>

\* C40: last_minute_checked never decreases and a pass is made only in a
\* minute newer than it, so appends, evaluations and order submissions
\* happen only in the one pass of a minute, and that pass makes at most
\* one of each per instrument.
C40_OnePassPerMinute ==
    [][/\ last_minute_checked' # last_minute_checked
            => /\ last_minute_checked' > last_minute_checked
               /\ last_minute_checked' = now
               /\ \A s \in Symbols :
                    /\ Len(appended'[s]) <= Len(appended[s]) + 1
                    /\ Len(place_order_calls'[s]) <=
                            Len(place_order_calls[s]) + 1
       /\ last_minute_checked' = last_minute_checked
            => /\ appended' = appended
               /\ completed_candle_history' = completed_candle_history
               /\ last_eval' = last_eval
               /\ place_order_calls' = place_order_calls]_vars

\* The passes of minutes 1 and 2 each appended SBIN's candle of minute 0
\* once; the loop is still in minute 2 and the candle is still closed.
C40_Witness ==
    /\ running
    /\ now = 2
    /\ last_minute_checked = 2
    /\ appended["SBIN"] = <<0, 0>>
    /\ candle_closed("SBIN")

==============================================================================
